---- MODULE Spec2Model ----
(***************************************************************************)
(* A model of the country-quiz core: the leaderboard store                 *)
(* (src/leaderboard.py), the strict population parser (src/utils.py) and   *)
(* the population block of the submit handlers (src/app.py).               *)
(*                                                                         *)
(* A Python string is modelled as a sequence of one-character strings,     *)
(* e.g. "a b" is <<"a", " ", "b">>.                                        *)
(***************************************************************************)
EXTENDS Integers, Sequences, FiniteSets, TLC

\* ------------------------------------------------------------------ bounds

\* Scores passed to record_score range over 0..MaxScore.
MaxScore == 2
\* The wall clock (datetime.now, in whole seconds) ranges over 0..MaxTime.
MaxTime == 1
\* get_top_entries is called with a limit in 0..MaxLimit.
MaxLimit == 3

\* Population guesses typed into the form: every string of at most
\* MaxGuessLen characters, and those strings behind a run of zeros.
MaxGuessLen == 2
\* The true populations of the countries served range over 0..MaxTruth
\* (0: a country without a usable population), plus 1000.
MaxTruth == 15

\* --------------------------------------------------------- string helpers

Min(a, b) == IF a <= b THEN a ELSE b
Max(a, b) == IF a >= b THEN a ELSE b
Abs(a) == IF a >= 0 THEN a ELSE 0 - a

\* The characters Python's str.strip() and the regex class \s treat as
\* whitespace, among the characters the model uses.
Whitespace == {" ", "\t"}
IsSpace(c) == c \in Whitespace

RECURSIVE LStrip(_)
LStrip(s) ==
    IF s = << >> THEN << >>
    ELSE IF IsSpace(Head(s)) THEN LStrip(Tail(s)) ELSE s

RECURSIVE RStrip(_)
RStrip(s) ==
    IF s = << >> THEN << >>
    ELSE IF IsSpace(s[Len(s)]) THEN RStrip(SubSeq(s, 1, Len(s) - 1)) ELSE s

\* str.strip(): drop leading and trailing whitespace.
Strip(s) == RStrip(LStrip(s))

\* _WS_RE.sub(" ", s): every maximal run of whitespace becomes one space.
RECURSIVE CollapseWs(_)
CollapseWs(s) ==
    IF s = << >> THEN << >>
    ELSE IF IsSpace(Head(s)) THEN <<" ">> \o CollapseWs(LStrip(s))
    ELSE <<Head(s)>> \o CollapseWs(Tail(s))

\* str.casefold() on the letters the model uses.
CaseFoldChar(c) ==
    CASE c = "A" -> "a"
      [] c = "B" -> "b"
      [] OTHER -> c
casefold(s) == [i \in 1..Len(s) |-> CaseFoldChar(s[i])]

\* A mutant of _clean_name: the ends are stripped, internal runs are kept.
CleanNameNoCollapse(name) == Strip(name)

\* leaderboard._clean_name
_clean_name(name) == CollapseWs(Strip(name))

\* leaderboard._name_key
_name_key(name) == casefold(_clean_name(name))

\* ------------------------------------------------------ leaderboard: data

\* The raw names handed to record_score: blank names, and spellings of two
\* players that differ in case, in surrounding whitespace and in the length
\* and kind of an internal whitespace run.
RawNames ==
    { << >>,
      <<" ">>,
      <<"a">>,
      <<"A">>,
      <<" ", "a", " ">>,
      <<"a", " ", "b">>,
      <<"A", " ", "\t", "B">> }

Scores == 0..MaxScore
Times == 0..MaxTime
Limits == 0..MaxLimit

\* The two request workers that may run record_score at the same time.
Procs == {"w1", "w2"}

\* The keys record_score can compute from RawNames (blank names have none).
Keys == {_name_key(n) : n \in RawNames} \ {<< >>}

VARIABLES
    backend,    \* "postgres" or "sqlite": _use_postgres(), fixed per deployment
    table,      \* the leaderboard table: a set of rows
    clock,      \* the current time
    recorded,   \* per key, the highest score ever passed to record_score (-1: none)
    inserted,   \* per key, how many INSERTs of a new row have succeeded
    last,       \* the last completed record_score / get_top_entries call
    pc,         \* per worker, where its record_score call stands
    loc,        \* per worker, the locals of its record_score call
    pop,        \* the population question of the current round and its scoring
    txt,        \* the last norm_text call: its argument and its result
    cur,        \* the currency question: the country's currencies, the guess, the verdict
    lang,       \* the language question: the country's labels, the guess, the verdict
    comp,       \* /competition/start: the posted name, the validator's result, the session
    _COUNTRY_CACHE, \* the in-memory cache of the country list: data, fetched_at
    fallback,   \* the file data/countries_fallback.json: its content and mtime
    wall,       \* time.time() as get_countries_cached reads it, in seconds
    got,        \* the last get_countries_cached call: what it saw and returned
    session     \* the free-mode keys of the session cookie

\* The leaderboard's variables, and those of the quiz handlers.
lbVars == <<backend, table, clock, recorded, inserted, last, pc, loc>>
\* The matchers' and the name validator's variables.
rulesVars == <<txt, cur, lang, comp>>
quizVars == <<pop, rulesVars>>
\* The country cache's variables and the free-mode session.
webVars == <<_COUNTRY_CACHE, fallback, wall, got, session>>

vars == <<lbVars, quizVars, webVars>>

Row(name, key, score, at) ==
    [name |-> name, name_key |-> key, score |-> score, played_at |-> at]

RowsFor(tbl, key) == {r \in tbl : r.name_key = key}

\* ------------------------------------------------ leaderboard: statements

\* A mutant of the upsert's WHERE: a tie overwrites the row too.
PgWhereTieUpdates(excluded, stored) == excluded >= stored

\* WHERE EXCLUDED.score > leaderboard.score
PgWhere(excluded, stored) == excluded > stored

\* The Postgres statement INSERT ... ON CONFLICT (name_key) DO UPDATE SET
\* name, score, played_at ... WHERE EXCLUDED.score > leaderboard.score, which
\* the server runs atomically. rowcount is the number of rows inserted or
\* updated.
PgUpsert(tbl, name, key, score, now) ==
    LET conflict == RowsFor(tbl, key)
        hit == {r \in conflict : PgWhere(score, r.score)}
    IN  IF conflict = {}
        THEN [table |-> tbl \cup {Row(name, key, score, now)}, rowcount |-> 1]
        ELSE [table |-> (tbl \ hit) \cup {Row(name, key, score, now) : r \in hit},
              rowcount |-> Cardinality(hit)]

\* SELECT score FROM leaderboard WHERE name_key = ? ... fetchone()
SqSelect(tbl, key) ==
    IF RowsFor(tbl, key) = {}
    THEN [found |-> FALSE, score |-> 0]
    ELSE [found |-> TRUE, score |-> (CHOOSE r \in RowsFor(tbl, key) : TRUE).score]

\* A mutant of the INSERT: the table has no PRIMARY KEY on name_key.
SqInsertNoPrimaryKey(tbl, name, key, score, now) ==
    [table |-> tbl \cup {Row(name, key, score, now)}, raised |-> FALSE]

\* INSERT INTO leaderboard (name, name_key, score, played_at) VALUES (...) and
\* commit. name_key is the PRIMARY KEY: inserting a key that is present raises
\* sqlite3.IntegrityError and the connection's context manager rolls back.
SqInsert(tbl, name, key, score, now) ==
    IF RowsFor(tbl, key) # {}
    THEN [table |-> tbl, raised |-> TRUE]
    ELSE [table |-> tbl \cup {Row(name, key, score, now)}, raised |-> FALSE]

\* A mutant of the UPDATE: played_at is left as it was.
SqUpdateKeepsPlayedAt(tbl, key, score, now) ==
    (tbl \ RowsFor(tbl, key))
        \cup {Row(r.name, key, score, r.played_at) : r \in RowsFor(tbl, key)}

\* UPDATE leaderboard SET score = ?, played_at = ? WHERE name_key = ? and
\* commit. The name column is not among the columns set.
SqUpdate(tbl, key, score, now) ==
    (tbl \ RowsFor(tbl, key))
        \cup {Row(r.name, key, score, now) : r \in RowsFor(tbl, key)}

\* A mutant of the comparison: any different score replaces the stored one.
ScoreImprovesAnyChange(score_i, old_score) == score_i # old_score

\* if score_i > old_score
ScoreImproves(score_i, old_score) == score_i > old_score

\* What the SQLite path does after its SELECT returned `row`: insert, update
\* or nothing. ret is the call's outcome: "True", "False" or "IntegrityError".
SqWrite(tbl, row, name, key, score, now) ==
    IF ~row.found
    THEN LET i == SqInsert(tbl, name, key, score, now)
         IN  [table |-> i.table,
              ret |-> IF i.raised THEN "IntegrityError" ELSE "True",
              did |-> IF i.raised THEN "none" ELSE "insert"]
    ELSE IF ScoreImproves(score, row.score)
         THEN [table |-> SqUpdate(tbl, key, score, now), ret |-> "True",
               did |-> "update"]
         ELSE [table |-> tbl, ret |-> "False", did |-> "none"]

\* What the Postgres path does: the single upsert statement.
PgWrite(tbl, name, key, score, now) ==
    LET u == PgUpsert(tbl, name, key, score, now)
    IN  [table |-> u.table,
         ret |-> IF u.rowcount = 1 THEN "True" ELSE "False",
         did |-> IF RowsFor(tbl, key) = {} THEN "insert"
                 ELSE IF u.rowcount = 1 THEN "update" ELSE "none"]

\* record_score(name, score) run without interruption against table tbl at
\* time now, on backend be.
record_score(tbl, be, raw, score, now) ==
    LET name == _clean_name(raw)
        key == casefold(name)
    IN  IF name = << >>
        THEN [table |-> tbl, ret |-> "False", did |-> "none"]
        ELSE IF be = "postgres"
             THEN PgWrite(tbl, name, key, score, now)
             ELSE SqWrite(tbl, SqSelect(tbl, key), name, key, score, now)

\* ----------------------------------------------------- leaderboard: reads

\* A mutant of the ORDER BY: played_at ascending as tie-break.
RanksNoLowerOldestFirst(r1, r2) ==
    \/ r1.score > r2.score
    \/ r1.score = r2.score /\ r1.played_at <= r2.played_at

\* ORDER BY score DESC, played_at DESC: r1 may come before r2.
RanksNoLower(r1, r2) ==
    \/ r1.score > r2.score
    \/ r1.score = r2.score /\ r1.played_at >= r2.played_at

\* The orders in which the database may return all rows of tbl: rows that
\* tie on score and played_at come in an order the engine chooses.
OrderBy(tbl) ==
    LET n == Cardinality(tbl)
    IN  {s \in [1..n -> tbl] :
            /\ \A i, j \in 1..n : i # j => s[i] # s[j]
            /\ \A i, j \in 1..n : i < j => RanksNoLower(s[i], s[j])}

\* LIMIT ?
Limit(s, limit) == SubSeq(s, 1, Min(limit, Len(s)))

\* LeaderboardEntry(name, score, played_at)
LeaderboardEntry(r) == [name |-> r.name, score |-> r.score, played_at |-> r.played_at]

\* get_top_entries(limit): the lists of entries the call may return.
get_top_entries(tbl, limit) ==
    {[i \in 1..Len(Limit(s, limit)) |-> LeaderboardEntry(Limit(s, limit)[i])] :
        s \in OrderBy(tbl)}

\* ---------------------------------------------------- leaderboard: actions

\* No population question has been served yet.
NoQuestion ==
    [pc |-> "none", population |-> 0, form |-> << >>, raw_hidden |-> << >>,
     guess_num |-> [kind |-> "None", value |-> 0], ok |-> "none"]

\* norm_text has not been called yet.
NoText == [pc |-> "none", s |-> << >>, n |-> << >>]

\* No currency question has been served yet.
NoCurrencies ==
    [pc |-> "none", currency_objects |-> << >>, guess_raw |-> << >>, ok |-> FALSE]

\* No language question has been served yet.
NoLanguages ==
    [pc |-> "none", languages |-> << >>, guess_raw |-> << >>, ok |-> FALSE]

\* Python's None where a JSON value is expected, and a JSON list.
NoData == [kind |-> "None", value |-> << >>]
List(v) == [kind |-> "list", value |-> v]

\* The session holds no current country: session.get("current") is None,
\* and `session.get("current") or {}` answers None to every .get().
NoCurrent ==
    [kind |-> "None", name |-> << >>, capital |-> << >>,
     population |-> [kind |-> "None", value |-> 0],
     languages |-> << >>, currencies |-> << >>]

\* A session in which free() has not run yet: none of its keys is set.
NoSession ==
    [keys |-> FALSE, seen |-> << >>, total_score |-> 0, total_possible |-> 0,
     rounds |-> 0, in_round |-> FALSE, current |-> NoCurrent, response |-> "none"]

\* get_countries_cached has not been called yet.
NoGet ==
    [pc |-> "none", now |-> 0, data |-> NoData, fetched_at |-> 0,
     fetched |-> FALSE, fetch |-> NoData, loaded |-> "none", ret |-> NoData]

\* No name has been posted to /competition/start yet.
\* (A session key that is not set is modelled by an empty or zero value.)
NoCompetition ==
    [pc |-> "none", name_raw |-> << >>, ok |-> FALSE, err |-> "",
     comp_name |-> << >>, comp_round |-> 0, comp_score |-> 0, comp_seen |-> << >>,
     comp_in_round |-> FALSE, comp_current |-> NoCurrent, last_comp_score |-> 0]

NoCall ==
    [op |-> "none", name |-> << >>, score |-> 0, limit |-> 0, now |-> 0,
     ret |-> "None", top |-> << >>, pre |-> {}]

NoLocals ==
    [name |-> << >>, key |-> << >>, score |-> 0, now |-> 0,
     row |-> [found |-> FALSE, score |-> 0], ret |-> "None"]

\* No question has been served.
InitQuestions ==
    /\ pop = NoQuestion
    /\ txt = NoText
    /\ cur = NoCurrencies
    /\ lang = NoLanguages

\* An empty leaderboard on the sqlite backend, no call in progress.
InitSqlite ==
    /\ backend = "sqlite"
    /\ table = {}
    /\ clock = 0
    /\ recorded = [k \in Keys |-> -1]
    /\ inserted = [k \in Keys |-> 0]
    /\ last = NoCall
    /\ pc = [p \in Procs |-> "idle"]
    /\ loc = [p \in Procs |-> NoLocals]

InitQuiz ==
    /\ backend \in {"postgres", "sqlite"}
    /\ table = {}
    /\ clock = 0
    /\ recorded = [k \in Keys |-> -1]
    /\ inserted = [k \in Keys |-> 0]
    /\ last = NoCall
    /\ pc = [p \in Procs |-> "idle"]
    /\ loc = [p \in Procs |-> NoLocals]
    /\ InitQuestions
    /\ comp = NoCompetition

\* The process has just started: the cache is empty, no fallback file has
\* been written, the browser holds no session.
InitWeb ==
    /\ _COUNTRY_CACHE = [data |-> NoData, fetched_at |-> 0]
    /\ fallback = [exists |-> FALSE, content |-> NoData, mtime |-> 0]
    /\ wall = 0
    /\ got = NoGet
    /\ session = NoSession

Init == InitQuiz /\ InitWeb

\* Time passes.
Tick ==
    /\ clock < MaxTime
    /\ clock' = clock + 1
    /\ UNCHANGED <<backend, table, recorded, inserted, last, pc, loc>>
    /\ UNCHANGED <<quizVars, webVars>>

Note(rec, ins, raw, score, did) ==
    LET key == _name_key(raw)
    IN  IF key \in Keys
        THEN [recorded |-> [rec EXCEPT ![key] = Max(@, score)],
              inserted |-> IF did = "insert" THEN [ins EXCEPT ![key] = @ + 1] ELSE ins]
        ELSE [recorded |-> rec, inserted |-> ins]

\* One whole record_score call, no other call running meanwhile.
RecordScore ==
    /\ \E raw \in RawNames, score \in Scores :
          LET r == record_score(table, backend, raw, score, clock)
              g == Note(recorded, inserted, raw, score, r.did)
          IN  /\ table' = r.table
              /\ recorded' = g.recorded
              /\ inserted' = g.inserted
              /\ last' = [op |-> "record_score", name |-> raw, score |-> score,
                          limit |-> 0, now |-> clock, ret |-> r.ret,
                          top |-> << >>, pre |-> table]
    /\ UNCHANGED <<backend, clock, pc, loc>>
    /\ UNCHANGED <<quizVars, webVars>>

\* One whole get_top_entries call.
GetTopEntries ==
    /\ \E limit \in Limits :
          \E top \in get_top_entries(table, limit) :
              last' = [op |-> "get_top_entries", name |-> << >>, score |-> 0,
                       limit |-> limit, now |-> clock, ret |-> "None",
                       top |-> top, pre |-> table]
    /\ UNCHANGED <<backend, table, clock, recorded, inserted, pc, loc>>
    /\ UNCHANGED <<quizVars, webVars>>

Next == Tick \/ RecordScore \/ GetTopEntries

Spec == Init /\ [][Next]_vars

\* ------------------------------------------- leaderboard: sequential claims

\* The last completed call was record_score with a name that is not blank.
Scored == last.op = "record_score" /\ _clean_name(last.name) # << >>

\* The rows stored under the key of the last call's name, before and after.
RowsBefore == RowsFor(last.pre, _name_key(last.name))
RowsAfter == RowsFor(table, _name_key(last.name))

\* C1: after any sequence of record_score calls there is at most one row per
\* name_key, a row exists for every key a score was recorded for, and its
\* score is the highest score ever passed to record_score for that key.
C1_OneRowPerKeyWithBestScore ==
    /\ \A k \in Keys : Cardinality(RowsFor(table, k)) <= 1
    /\ \A r \in table : r.name_key \in Keys /\ r.score = recorded[r.name_key]
    /\ \A k \in Keys : recorded[k] >= 0 => RowsFor(table, k) # {}

\* C1 witness: a lower score was just passed for a key whose row keeps the
\* higher score recorded earlier, beside the row of another key.
C1_Witness ==
    /\ Scored
    /\ Cardinality(table) = 2
    /\ \E r \in RowsAfter : r.score = MaxScore /\ last.score < r.score

\* C3 as stated: record_score returns true and creates the row whenever no
\* row exists for the name's key (a blank name included: no row ever has
\* its key), and on a strictly greater score it sets score and played_at
\* and returns true.
C3_Original ==
    last.op = "record_score" =>
        /\ RowsBefore = {} =>
              /\ last.ret = "True"
              /\ \E r \in table \ last.pre :
                    r.name_key = _name_key(last.name) /\ r.score = last.score
        /\ \A r \in RowsBefore : last.score > r.score =>
              /\ last.ret = "True"
              /\ \A r2 \in RowsAfter :
                    r2.score = last.score /\ r2.played_at = last.now

\* C3 as amended: for a name that is not blank after cleaning, record_score
\* returns true and creates the row (cleaned name, key, score, current time)
\* when no row exists for the key; when a row exists and the score is
\* strictly greater it sets score to the score passed and played_at to the
\* current time, and returns true.
C3_InsertOrImprove ==
    Scored =>
        /\ RowsBefore = {} =>
              /\ last.ret = "True"
              /\ table = last.pre \cup
                    {Row(_clean_name(last.name), _name_key(last.name),
                         last.score, last.now)}
        /\ \A r \in RowsBefore : last.score > r.score =>
              /\ last.ret = "True"
              /\ RowsAfter # {}
              /\ \A r2 \in RowsAfter :
                    r2.score = last.score /\ r2.played_at = last.now

\* C3 witness: a stored row was just improved at a later time than it was
\* created, and the call returned true.
C3_Witness ==
    /\ Scored
    /\ last.ret = "True"
    /\ \E r \in RowsBefore : last.score > r.score /\ last.now > r.played_at
    /\ \E r2 \in RowsAfter : r2.score = last.score

\* C4: a record_score call whose score is less than or equal to the stored
\* score of its key returns false and leaves the whole table as it was:
\* name, score and played_at of the row, and every other row.
C4_NoChangeUnlessHigher ==
    Scored =>
        \A r \in RowsBefore : last.score <= r.score =>
            last.ret = "False" /\ table = last.pre

\* C4 witness: a tie was just recorded at a later time and under another
\* spelling than the stored row's, with another row in the table.
C4_Witness ==
    /\ Scored
    /\ Cardinality(table) = 2
    /\ \E r \in RowsBefore :
          /\ last.score = r.score
          /\ last.now > r.played_at
          /\ _clean_name(last.name) # r.name

\* C5: when record_score improves an existing row, the stored display name
\* becomes the cleaned name passed in that call.
C5_LatestCasingWins ==
    Scored =>
        \A r \in RowsBefore : last.score > r.score =>
            \A r2 \in RowsAfter : r2.name = _clean_name(last.name)

\* The words of a name: its maximal runs of non-whitespace characters, in
\* lower case.
RECURSIVE FirstWord(_)
FirstWord(s) ==
    IF s = << >> \/ IsSpace(Head(s)) THEN << >>
    ELSE <<CaseFoldChar(Head(s))>> \o FirstWord(Tail(s))

RECURSIVE Words(_)
Words(s) ==
    LET t == LStrip(s)
        w == FirstWord(t)
    IN  IF t = << >> THEN << >>
        ELSE <<w>> \o Words(SubSeq(t, Len(w) + 1, Len(t)))

\* Two names differ only in letter case, in leading or trailing whitespace
\* or in the length of internal whitespace runs.
SameName(n1, n2) == Words(n1) = Words(n2)

\* C6: names that differ only in case and whitespace address the same row:
\* no two rows carry such names, a call touches only the row of its name's
\* class, and it returns false and changes nothing when that row already
\* holds a score at least as high.
C6_SpellingsShareOneRow ==
    /\ \A r1, r2 \in table : SameName(r1.name, r2.name) => r1 = r2
    /\ last.op = "record_score" /\ Words(last.name) # << >> =>
          /\ Cardinality({r \in table : SameName(r.name, last.name)}) = 1
          /\ {r \in table : ~SameName(r.name, last.name)}
                = {r \in last.pre : ~SameName(r.name, last.name)}
          /\ \A r \in last.pre :
                SameName(r.name, last.name) /\ last.score <= r.score =>
                    last.ret = "False" /\ table = last.pre

\* C6 witness: a lower score was just passed under a spelling that differs
\* from the stored one in case and in its internal whitespace run; the call
\* returned false.
C6_Witness ==
    /\ last.op = "record_score"
    /\ last.name = <<"A", " ", "\t", "B">>
    /\ last.ret = "False"
    /\ \E r \in table : r.name = <<"a", " ", "b">> /\ r.score > last.score

\* C7: get_top_entries(limit) returns min(limit, number of rows) entries of
\* distinct rows, sorted by score descending then played_at descending; no
\* omitted row ranks higher than a returned one; the table is unchanged.
C7_TopEntries ==
    last.op = "get_top_entries" =>
        LET n == Len(last.top)
            returned == {last.top[i] : i \in 1..n}
            stored == {LeaderboardEntry(r) : r \in table}
        IN  /\ n = Min(last.limit, Cardinality(table))
            /\ returned \subseteq stored
            /\ Cardinality(returned) = n
            /\ \A i, j \in 1..n : i < j =>
                  \/ last.top[i].score > last.top[j].score
                  \/ /\ last.top[i].score = last.top[j].score
                     /\ last.top[i].played_at >= last.top[j].played_at
            /\ \A e \in stored \ returned, x \in returned :
                  \/ x.score > e.score
                  \/ x.score = e.score /\ x.played_at >= e.played_at
            /\ table = last.pre

\* C7 witness: of two rows that tie on score, the call with limit 1 returned
\* the one played later and omitted the other.
C7_Witness ==
    /\ last.op = "get_top_entries"
    /\ last.limit = 1
    /\ Len(last.top) = 1
    /\ \E r \in table :
          /\ LeaderboardEntry(r) # last.top[1]
          /\ r.score = last.top[1].score
          /\ r.played_at < last.top[1].played_at

\* ------------------------------------------ leaderboard: concurrent calls

\* The locals of a worker whose call has returned (or raised): the key it
\* was for and its outcome.
Finished(key, ret) == [NoLocals EXCEPT !.key = key, !.ret = ret]

\* A worker enters record_score: init_db(), the name is cleaned, the key,
\* the score and the timestamp are computed. A blank name returns False at
\* once.
Begin(p) ==
    /\ pc[p] = "idle"
    /\ \E raw \in RawNames, score \in Scores :
          LET name == _clean_name(raw)
          IN  /\ loc' = [loc EXCEPT ![p] =
                    IF name = << >>
                    THEN Finished(<< >>, "False")
                    ELSE [NoLocals EXCEPT !.name = name, !.key = casefold(name),
                                          !.score = score, !.now = clock]]
              /\ pc' = [pc EXCEPT ![p] = IF name = << >> THEN "returned" ELSE "ready"]
              /\ recorded' = Note(recorded, inserted, raw, score, "none").recorded
    /\ UNCHANGED <<backend, table, clock, inserted, last>>
    /\ UNCHANGED <<quizVars, webVars>>

\* Postgres path: the upsert statement and the commit; the call returns.
PgExecute(p) ==
    /\ backend = "postgres"
    /\ pc[p] = "ready"
    /\ LET l == loc[p]
           w == PgWrite(table, l.name, l.key, l.score, l.now)
       IN  /\ table' = w.table
           /\ inserted' = Note(recorded, inserted, l.name, l.score, w.did).inserted
           /\ loc' = [loc EXCEPT ![p] = Finished(l.key, w.ret)]
    /\ pc' = [pc EXCEPT ![p] = "returned"]
    /\ UNCHANGED <<backend, clock, recorded, last>>
    /\ UNCHANGED <<quizVars, webVars>>

\* SQLite path: the SELECT. Python's sqlite3 opens no transaction for it, so
\* other connections may commit before this call's INSERT or UPDATE.
SqExecuteSelect(p) ==
    /\ backend = "sqlite"
    /\ pc[p] = "ready"
    /\ loc' = [loc EXCEPT ![p].row = SqSelect(table, loc[p].key)]
    /\ pc' = [pc EXCEPT ![p] = "selected"]
    /\ UNCHANGED <<backend, table, clock, recorded, inserted, last>>
    /\ UNCHANGED <<quizVars, webVars>>

\* SQLite path: the INSERT or UPDATE (with its commit) or the return of
\* False, decided by the row the SELECT returned; the call then returns, or
\* the INSERT's exception propagates to the request handler.
SqExecuteWrite(p) ==
    /\ backend = "sqlite"
    /\ pc[p] = "selected"
    /\ LET l == loc[p]
           w == SqWrite(table, l.row, l.name, l.key, l.score, l.now)
       IN  /\ table' = w.table
           /\ inserted' = Note(recorded, inserted, l.name, l.score, w.did).inserted
           /\ loc' = [loc EXCEPT ![p] = Finished(l.key, w.ret)]
    /\ pc' = [pc EXCEPT ![p] = "returned"]
    /\ UNCHANGED <<backend, clock, recorded, last>>
    /\ UNCHANGED <<quizVars, webVars>>

NextConc ==
    \/ Tick
    \/ \E p \in Procs : Begin(p)
    \/ \E p \in Procs : PgExecute(p)
    \/ \E p \in Procs : SqExecuteSelect(p)
    \/ \E p \in Procs : SqExecuteWrite(p)

\* The table before the concurrent calls: empty, or as one earlier
\* record_score call at time 0 left it.
InitConc ==
    /\ backend \in {"postgres", "sqlite"}
    /\ clock = 0
    /\ \/ /\ table = {}
          /\ recorded = [k \in Keys |-> -1]
          /\ inserted = [k \in Keys |-> 0]
       \/ \E raw \in RawNames, score \in Scores :
             LET r == record_score({}, backend, raw, score, 0)
                 g == Note([k \in Keys |-> -1], [k \in Keys |-> 0], raw, score, r.did)
             IN  /\ table = r.table
                 /\ recorded = g.recorded
                 /\ inserted = g.inserted
    /\ last = NoCall
    /\ pc = [p \in Procs |-> "idle"]
    /\ loc = [p \in Procs |-> NoLocals]
    /\ pop = NoQuestion
    /\ txt = NoText
    /\ cur = NoCurrencies
    /\ lang = NoLanguages
    /\ comp = NoCompetition
    /\ InitWeb

\* One record_score call by each of two workers, their statements
\* interleaved in every order.
SpecConc == InitConc /\ [][NextConc]_vars

\* Both calls have finished: returned, or raised.
AllFinished == \A p \in Procs : pc[p] = "returned"

\* C2: once two concurrent record_score calls have both returned, the row of
\* each key carries the highest score passed for it (the higher of the two,
\* or the score stored before if that is higher still): no interleaving
\* loses the higher update. (Runs in which the store refused a call's
\* INSERT are left aside: the claim is stated of calls that returned.)
C2_HigherScoreSurvives ==
    AllFinished /\ (\A p \in Procs : loc[p].ret \in {"True", "False"}) =>
        \A k \in Keys : recorded[k] >= 0 =>
            \E r \in RowsFor(table, k) : r.score = recorded[k]

\* C8: under any interleaving, at most one call inserts a row for a key and
\* reports success for the insert, and no key ever has two rows.
C8_NoDoubleInsert ==
    \A k \in Keys :
        /\ Cardinality(RowsFor(table, k)) <= 1
        /\ inserted[k] <= 1

\* C8 witness: two calls for the same key both saw no row; one inserted and
\* returned True, the other's INSERT was refused by the primary key.
C8_Witness ==
    \E p, q \in Procs :
        /\ p # q
        /\ pc[p] = "returned" /\ pc[q] = "returned"
        /\ loc[p].key = loc[q].key
        /\ loc[p].ret = "True"
        /\ loc[q].ret = "IntegrityError"
        /\ Cardinality(RowsFor(table, loc[p].key)) = 1

\* ------------------------------------------------- population: the parser

\* len(s) > 15
MaxDigits == 15

\* The characters a population guess is typed from. "sup2" is the
\* superscript two (U+00B2): str.isdigit() holds of it, int() refuses it.
GuessChars == {"0", "1", "2", ",", " ", "\t", "-", ".", "sup2"}

DecimalDigits == {"0", "1", "2", "3", "4", "5", "6", "7", "8", "9"}

\* c.isdigit()
IsDigit(c) == c \in DecimalDigits \cup {"sup2"}

DigitValue(c) ==
    CASE c = "0" -> 0 [] c = "1" -> 1 [] c = "2" -> 2 [] c = "3" -> 3
      [] c = "4" -> 4 [] c = "5" -> 5 [] c = "6" -> 6 [] c = "7" -> 7
      [] c = "8" -> 8 [] c = "9" -> 9

\* s.replace(old, "") for a one-character old.
RECURSIVE Remove(_, _)
Remove(s, old) ==
    IF s = << >> THEN << >>
    ELSE IF Head(s) = old THEN Remove(Tail(s), old)
    ELSE <<Head(s)>> \o Remove(Tail(s), old)

\* The value of a string of decimal digits, most significant first.
RECURSIVE DecimalValue(_)
DecimalValue(s) ==
    IF s = << >> THEN 0
    ELSE 10 * DecimalValue(SubSeq(s, 1, Len(s) - 1)) + DigitValue(s[Len(s)])

\* int(s): the value of a string of decimal digits; ValueError for any
\* other string.
int(s) ==
    IF s # << >> /\ \A i \in 1..Len(s) : s[i] \in DecimalDigits
    THEN [kind |-> "int", value |-> DecimalValue(s)]
    ELSE [kind |-> "ValueError", value |-> 0]

\* utils.parse_population_strict(raw) for a string raw: an integer, None, or
\* the ValueError that int() raises.
parse_population_strict(raw) ==
    LET s == Remove(Remove(Strip(raw), ","), " ")
    IN  IF s = << >> \/ ~(\A i \in 1..Len(s) : IsDigit(s[i]))
        THEN [kind |-> "None", value |-> 0]
        ELSE IF Len(s) > MaxDigits
             THEN [kind |-> "None", value |-> 0]
             ELSE int(s)

\* -------------------------------------------------- population: the judge

\* (abs(guess_num - population) / population) <= 0.20, for
\* population > 0. Python divides in binary floating point and compares
\* with the double nearest 0.2, which is above 1/5. The quotient of two
\* integers below 2^53 never rounds across that double unless its distance
\* from 1/5, at least 1/(5 * population), is below 2^-55; a guess has at
\* most 15 digits, so a guess within 20% has population < 1.25 * 10^15 and
\* the comparison agrees with the exact one, 5 * |guess - population| <=
\* population.
WithinTolerance(guess_num, population) ==
    5 * Abs(guess_num - population) <= population

\* The population block of submit() and competition_play(): the verdict on
\* the form's population field, "skipped" when the country has no positive
\* population, "ValueError" when the parser's exception leaves the handler.
PopulationBlock(population, form) ==
    LET raw_hidden == Strip(form)
        guess_num == parse_population_strict(raw_hidden)
    IN  [raw_hidden |-> raw_hidden,
         guess_num |-> guess_num,
         ok |-> IF ~(population > 0) THEN "skipped"
                ELSE IF guess_num.kind = "ValueError" THEN "ValueError"
                ELSE IF guess_num.kind = "None" THEN "incorrect"
                ELSE IF WithinTolerance(guess_num.value, population)
                     THEN "correct" ELSE "incorrect"]

\* All strings over GuessChars of length at most n.
RECURSIVE StringsUpTo(_)
StringsUpTo(n) ==
    IF n = 0 THEN {<< >>}
    ELSE StringsUpTo(n - 1)
            \cup {Append(s, c) : s \in {t \in StringsUpTo(n - 1) : Len(t) = n - 1},
                                 c \in GuessChars}

Zeros(n) == [i \in 1..n |-> "0"]

\* The guesses posted: the short strings, the short strings behind 13 to 16
\* zeros (so that the 15-digit limit is met from both sides), and the two
\* guesses of the documented example.
Guesses ==
    StringsUpTo(MaxGuessLen)
        \cup {Zeros(n) \o s : n \in (MaxDigits - 2)..(MaxDigits + 1),
                              s \in StringsUpTo(MaxGuessLen)}
        \cup {<<"8", "0", "0">>, <<"7", "9", "9">>}

Populations == 0..MaxTruth \cup {1000}

\* free() / competition_play (GET): a country is picked and its population
\* becomes the current question's.
ServeQuestion ==
    /\ \E population \in Populations :
          pop' = [NoQuestion EXCEPT !.pc = "asked", !.population = population]
    /\ UNCHANGED <<lbVars, webVars>>
    /\ UNCHANGED rulesVars

\* submit() / competition_play (POST): the population block scores the
\* posted guess against the current question. (The block depends on the
\* question and the posted form only, so a form posted again for a question
\* already scored leads to the states reached here.)
SubmitGuess ==
    /\ pop.pc = "asked"
    /\ \E form \in Guesses :
          LET b == PopulationBlock(pop.population, form)
          IN  pop' = [pc |-> "scored", population |-> pop.population,
                      form |-> form, raw_hidden |-> b.raw_hidden,
                      guess_num |-> b.guess_num, ok |-> b.ok]
    /\ UNCHANGED <<lbVars, webVars>>
    /\ UNCHANGED rulesVars

NextPop == ServeQuestion \/ SubmitGuess

\* Population questions served and scored.
SpecPop == Init /\ [][NextPop]_vars

\* The string left after removing commas and spaces.
Cleaned(s) == Remove(Remove(s, ","), " ")

\* The claimed condition for an integer: the remainder is non-empty, all
\* decimal digits, at most 15 of them.
StrictInteger(s) ==
    /\ Cleaned(s) # << >>
    /\ \A i \in 1..Len(Cleaned(s)) : Cleaned(s)[i] \in DecimalDigits
    /\ Len(Cleaned(s)) <= 15

\* C9: for a true population t > 0 the verdict is incorrect when the guess
\* does not parse as a strict integer, and otherwise it is correct exactly
\* when 5 * |g - t| <= t.
C9_PopulationVerdict ==
    pop.pc = "scored" /\ pop.population > 0 =>
        /\ pop.ok \in {"correct", "incorrect"}
        /\ pop.guess_num.kind # "int" => pop.ok = "incorrect"
        /\ pop.guess_num.kind = "int" =>
              (pop.ok = "correct"
                  <=> 5 * Abs(pop.guess_num.value - pop.population) <= pop.population)

\* C10: the parser never raises: it returns an integer or the invalid
\* marker; it returns an integer exactly when the input, commas and spaces
\* removed, is non-empty, all digits and at most 15 digits long, and the
\* integer is the value of those digits.
C10_ParserTotalAndExact ==
    pop.pc = "scored" =>
        /\ pop.guess_num.kind \in {"int", "None"}
        /\ pop.guess_num.kind = "int" <=> StrictInteger(pop.raw_hidden)
        /\ pop.guess_num.kind = "int" =>
              pop.guess_num.value = DecimalValue(Cleaned(pop.raw_hidden))

\* ------------------------------------------------- utils: text normalizer

\* The strings handed to norm_text have at most MaxTextLen characters.
MaxTextLen == 4

AsciiLower ==
    <<"a", "b", "c", "d", "e", "f", "g", "h", "i", "j", "k", "l", "m",
      "n", "o", "p", "q", "r", "s", "t", "u", "v", "w", "x", "y", "z">>
AsciiUpper ==
    <<"A", "B", "C", "D", "E", "F", "G", "H", "I", "J", "K", "L", "M",
      "N", "O", "P", "Q", "R", "S", "T", "U", "V", "W", "X", "Y", "Z">>

AsciiLowerSet == {AsciiLower[i] : i \in 1..Len(AsciiLower)}
AsciiUpperSet == {AsciiUpper[i] : i \in 1..Len(AsciiUpper)}

IndexIn(alphabet, c) == CHOOSE i \in 1..Len(alphabet) : alphabet[i] = c

\* Each ASCII letter in the other case.
AsciiToLower == [c \in AsciiUpperSet |-> AsciiLower[IndexIn(AsciiUpper, c)]]
AsciiToUpper == [c \in AsciiLowerSet |-> AsciiUpper[IndexIn(AsciiLower, c)]]

\* Characters outside ASCII are written as tokens: "e_acute" (U+00E9),
\* "E_acute" (U+00C9), "a_ring" (U+00E5), "script_M" (U+2133, an uppercase
\* letter without a lowercase form), "sup2" (U+00B2), the combining marks
\* "cmb_acute" (U+0301) and "cmb_ring" (U+030A), "o_acute" (U+00F3), and
\* the currency signs by their names, e.g. "euro_sign" (U+20AC) and
\* "manat_sign" (U+20BC).

\* str.lower(), one character.
LowerChar(c) ==
    IF c \in AsciiUpperSet THEN AsciiToLower[c]
    ELSE IF c = "E_acute" THEN "e_acute"
    ELSE c

\* str.upper(), one character.
UpperChar(c) ==
    IF c \in AsciiLowerSet THEN AsciiToUpper[c]
    ELSE IF c = "e_acute" THEN "E_acute"
    ELSE IF c = "a_ring" THEN "A_ring"
    ELSE c

lower(s) == [i \in 1..Len(s) |-> LowerChar(s[i])]
upper(s) == [i \in 1..Len(s) |-> UpperChar(s[i])]

\* unicodedata.normalize("NFKD", c), one character.
NFKD(c) ==
    CASE c = "e_acute" -> <<"e", "cmb_acute">>
      [] c = "E_acute" -> <<"E", "cmb_acute">>
      [] c = "a_ring" -> <<"a", "cmb_ring">>
      [] c = "o_acute" -> <<"o", "cmb_acute">>
      [] c = "script_M" -> <<"M">>
      [] c = "sup2" -> <<"2">>
      [] OTHER -> <<c>>

\* unicodedata.combining(c) is non-zero.
combining(c) == c \in {"cmb_acute", "cmb_ring"}

NotCombining(c) == ~combining(c)

\* "".join(c for c in unicodedata.normalize("NFKD", s) if not combining(c))
RECURSIVE StripAccents(_)
StripAccents(s) ==
    IF s = << >> THEN << >>
    ELSE SelectSeq(NFKD(Head(s)), NotCombining) \o StripAccents(Tail(s))

\* The regex class [a-z0-9].
IsAlnum(c) == c \in AsciiLowerSet \cup DecimalDigits

RECURSIVE SkipNonAlnum(_)
SkipNonAlnum(s) ==
    IF s = << >> THEN << >>
    ELSE IF IsAlnum(Head(s)) THEN s ELSE SkipNonAlnum(Tail(s))

\* re.sub(r"[^a-z0-9]+", " ", s): every maximal run of other characters
\* becomes one space.
RECURSIVE SubNonAlnum(_)
SubNonAlnum(s) ==
    IF s = << >> THEN << >>
    ELSE IF IsAlnum(Head(s)) THEN <<Head(s)>> \o SubNonAlnum(Tail(s))
    ELSE <<" ">> \o SubNonAlnum(SkipNonAlnum(s))

\* A mutant of norm_text: the last strip() is left out.
NormTextNoLastStrip(s) ==
    IF s = << >> THEN << >>
    ELSE CollapseWs(SubNonAlnum(StripAccents(lower(Strip(s)))))

\* utils.norm_text
norm_text(s) ==
    IF s = << >> THEN << >>
    ELSE Strip(CollapseWs(SubNonAlnum(StripAccents(lower(Strip(s))))))

IsAsciiLetter(c) == c \in AsciiLowerSet \cup AsciiUpperSet

\* utils.norm_code
norm_code(s) ==
    IF s = << >> THEN << >>
    ELSE upper(SelectSeq(s, IsAsciiLetter))

\* All strings over chars of length at most n.
RECURSIVE StringsOver(_, _)
StringsOver(chars, n) ==
    IF n = 0 THEN {<< >>}
    ELSE LET shorter == StringsOver(chars, n - 1)
         IN  shorter \cup {Append(s, c) : s \in {t \in shorter : Len(t) = n - 1},
                                          c \in chars}

\* The characters of the strings handed to norm_text: letters of both
\* cases, a digit, both kinds of whitespace, punctuation, an accented
\* letter, a lone combining mark, and two characters whose decomposition
\* is a digit and an uppercase letter.
TextChars ==
    {"a", "B", "1", " ", "\t", "-", "e_acute", "cmb_acute", "sup2", "script_M"}

\* norm_text is called on a string. (The function reads its argument only,
\* so one call reaches every result.)
NormText ==
    /\ txt.pc = "none"
    /\ \E s \in StringsOver(TextChars, MaxTextLen) :
          txt' = [pc |-> "returned", s |-> s, n |-> norm_text(s)]
    /\ UNCHANGED <<lbVars, webVars>>
    /\ UNCHANGED <<pop, cur, lang, comp>>

NextText == NormText

\* Calls of norm_text.
SpecText == Init /\ [][NextText]_vars

\* The claimed shape: words over [a-z0-9] separated by single spaces, no
\* space at either end.
WordsAndSingleSpaces(n) ==
    /\ \A i \in 1..Len(n) : n[i] \in AsciiLowerSet \cup DecimalDigits \cup {" "}
    /\ n # << >> => n[1] # " " /\ n[Len(n)] # " "
    /\ \A i \in 1..(Len(n) - 1) : ~(n[i] = " " /\ n[i + 1] = " ")

\* C16: norm_text applied to its own result returns that result, and the
\* result holds only characters of [a-z0-9] in words separated by single
\* spaces, with no space at either end.
C16_NormTextIdempotent ==
    txt.pc = "returned" =>
        /\ norm_text(txt.n) = txt.n
        /\ WordsAndSingleSpaces(txt.n)

\* norm_text has rewritten an accented, mixed-case string with a run of
\* punctuation and whitespace into two words.
C16_Witness ==
    /\ txt.pc = "returned"
    /\ txt.s = <<"B", "-", "\t", "e_acute">>
    /\ txt.n = <<"b", " ", "e">>

\* ------------------------------------------------ rules/currency: matcher

\* A country has at most MaxCurrencies currencies.
MaxCurrencies == 2

\* EXTRA_CURRENCY_ALIASES_BY_CODE, as pairs <<code, alias>>.
EXTRA_CURRENCY_ALIASES_BY_CODE ==
    { <<<<"U", "S", "D">>, <<"u", "s", " ", "d", "o", "l", "l", "a", "r">>>>, <<<<"U", "S", "D">>, <<"u", " ", "s", " ", "d", "o", "l", "l", "a", "r">>>>,
      <<<<"G", "B", "P">>, <<"p", "o", "u", "n", "d", " ", "s", "t", "e", "r", "l", "i", "n", "g">>>>, <<<<"G", "B", "P">>, <<"s", "t", "e", "r", "l", "i", "n", "g">>>>,
      <<<<"G", "B", "P">>, <<"p", "o", "u", "n", "d">>>>,
      <<<<"E", "U", "R">>, <<"e", "u", "r", "o">>>>,
      <<<<"J", "P", "Y">>, <<"y", "e", "n">>>>,
      <<<<"C", "N", "Y">>, <<"y", "u", "a", "n">>>>, <<<<"C", "N", "Y">>, <<"r", "e", "n", "m", "i", "n", "b", "i">>>>, <<<<"C", "N", "Y">>, <<"r", "m", "b">>>>,
      <<<<"K", "R", "W">>, <<"w", "o", "n">>>>,
      <<<<"I", "N", "R">>, <<"r", "u", "p", "e", "e">>>>,
      <<<<"R", "U", "B">>, <<"r", "u", "b", "l", "e">>>>, <<<<"R", "U", "B">>, <<"r", "o", "u", "b", "l", "e">>>>,
      <<<<"P", "L", "N">>, <<"z", "l", "o", "t", "y">>>>,
      <<<<"X", "A", "F">>, <<"c", "f", "a", " ", "f", "r", "a", "n", "c">>>>, <<<<"X", "A", "F">>, <<"c", "e", "n", "t", "r", "a", "l", " ", "a", "f", "r", "i", "c", "a", "n", " ", "c", "f", "a", " ", "f", "r", "a", "n", "c">>>>,
      <<<<"X", "A", "F">>, <<"c", "f", "a">>>>,
      <<<<"X", "O", "F">>, <<"c", "f", "a", " ", "f", "r", "a", "n", "c">>>>, <<<<"X", "O", "F">>, <<"w", "e", "s", "t", " ", "a", "f", "r", "i", "c", "a", "n", " ", "c", "f", "a", " ", "f", "r", "a", "n", "c">>>>,
      <<<<"X", "O", "F">>, <<"c", "f", "a">>>> }

\* EXTRA_CURRENCY_ALIASES_BY_CODE.get(code_u, set())
ExtraAliases(code_u) ==
    {p[2] : p \in {q \in EXTRA_CURRENCY_ALIASES_BY_CODE : q[1] = code_u}}

\* A mutant of BARE_WORD_DEFAULT_CODE: "dollar" alone means AUD.
BareDollarMeansAUD == { <<<<"d", "o", "l", "l", "a", "r">>, <<"A", "U", "D">>>> }

\* BARE_WORD_DEFAULT_CODE, as pairs <<word, code>>.
BARE_WORD_DEFAULT_CODE == { <<<<"d", "o", "l", "l", "a", "r">>, <<"U", "S", "D">>>> }

\* BARE_WORD_DEFAULT_CODE.keys()
BareWords == {p[1] : p \in BARE_WORD_DEFAULT_CODE}

\* BARE_WORD_DEFAULT_CODE[word], for a word of the table.
DefaultCode(word) == (CHOOSE p \in BARE_WORD_DEFAULT_CODE : p[1] = word)[2]

TYPE_WORDS_REQUIRE_DESCRIPTOR == BareWords

\* _SYMBOL_CHARS: the twenty currency signs of the source, by name.
_SYMBOL_CHARS ==
    {"euro_sign", "pound_sign", "$", "yen_sign", "won_sign", "ruble_sign",
     "indian_rupee_sign", "lira_sign", "dong_sign", "naira_sign", "peso_sign",
     "guarani_sign", "hryvnia_sign", "colon_sign", "tenge_sign", "cedi_sign",
     "kip_sign", "tugrik_sign", "new_sheqel_sign", "rupee_sign"}

\* str.split(): the maximal runs of non-whitespace characters.
RECURSIVE UpToSpace(_)
UpToSpace(s) ==
    IF s = << >> \/ IsSpace(Head(s)) THEN << >>
    ELSE <<Head(s)>> \o UpToSpace(Tail(s))

RECURSIVE split(_)
split(s) ==
    LET t == LStrip(s)
        w == UpToSpace(t)
    IN  IF t = << >> THEN << >>
        ELSE <<w>> \o split(SubSeq(t, Len(w) + 1, Len(t)))

\* " ".join(toks)
RECURSIVE join(_)
join(toks) ==
    IF toks = << >> THEN << >>
    ELSE IF Len(toks) = 1 THEN toks[1]
    ELSE toks[1] \o <<" ">> \o join(Tail(toks))

\* toks[-n:], for n <= len(toks)
LastToks(toks, n) == SubSeq(toks, Len(toks) - n + 1, Len(toks))

\* A mutant of _core_aliases_from_official_name: the last word is accepted
\* whatever it is.
CoreAliasIsLastWord(code_u, official_name) ==
    LET toks == split(norm_text(official_name))
    IN  IF toks = << >> THEN {} ELSE {toks[Len(toks)]}

\* currency._core_aliases_from_official_name
_core_aliases_from_official_name(code_u, official_name) ==
    LET name_n == norm_text(official_name)
        toks == split(name_n)
        last_ == toks[Len(toks)]
    IN  IF name_n = << >> THEN {}
        ELSE IF toks = << >> THEN {}
        ELSE IF last_ \in TYPE_WORDS_REQUIRE_DESCRIPTOR
             THEN (IF code_u = DefaultCode(last_) THEN {last_} ELSE {})
                    \cup {join(LastToks(toks, n)) :
                             n \in {m \in {2, 3, 4} : Len(toks) >= m}}
             ELSE {last_}

\* A mutant of currency_aliases: the symbol is an alias however many
\* currencies the country has.
CurrencyAliasesWithSymbol(code, name, symbol, single_currency_country) ==
    LET code_u == upper(code)
    IN  (IF code_u # << >> THEN {code_u} ELSE {})
            \cup (IF norm_text(name) # << >> THEN {norm_text(name)} ELSE {})
            \cup {norm_text(a) : a \in ExtraAliases(code_u)}
            \cup (IF name # << >>
                  THEN _core_aliases_from_official_name(code_u, name) ELSE {})
            \cup (IF symbol # << >> THEN {Strip(symbol)} ELSE {})

\* currency.currency_aliases. (A record without a symbol carries the empty
\* string: None and "" are both skipped by the test on symbol.)
currency_aliases(code, name, symbol, single_currency_country) ==
    LET code_u == upper(code)
        name_n == norm_text(name)
    IN  (IF code_u # << >> THEN {code_u} ELSE {})
            \cup (IF name_n # << >> THEN {name_n} ELSE {})
            \cup {norm_text(a) : a \in ExtraAliases(code_u)}
            \cup (IF name # << >>
                  THEN _core_aliases_from_official_name(code_u, name) ELSE {})
            \cup (IF single_currency_country /\ symbol # << >>
                  THEN {Strip(symbol)} ELSE {})

\* any(ch in _SYMBOL_CHARS for ch in a)
HasSymbolChar(a) == \E i \in 1..Len(a) : a[i] \in _SYMBOL_CHARS

\* The alias sets step 3 builds, one per currency of the country.
AliasSets(currency_objects) ==
    [i \in 1..Len(currency_objects) |->
        currency_aliases(currency_objects[i].code, currency_objects[i].name,
                         currency_objects[i].symbol, Len(currency_objects) = 1)]

\* present_codes
PresentCodes(currency_objects) ==
    {upper(currency_objects[i].code) : i \in 1..Len(currency_objects)} \ {<< >>}

\* A mutant of NoGuessVerdict: a guess of nothing is correct.
NoGuessIsCorrect == TRUE

\* What currency_guess_is_correct returns for an empty or all-whitespace
\* guess.
NoGuessVerdict == FALSE

\* currency.currency_guess_is_correct
currency_guess_is_correct(guess_raw, currency_objects) ==
    IF guess_raw = << >> THEN NoGuessVerdict
    ELSE IF Strip(guess_raw) = << >> THEN NoGuessVerdict
    ELSE
        LET guess_code == norm_code(Strip(guess_raw))
            guess_name == norm_text(Strip(guess_raw))
            guess_symbol == Strip(guess_raw)
            single == Len(currency_objects) = 1
            present_codes == PresentCodes(currency_objects)
            aliases == AliasSets(currency_objects)
        IN  IF guess_code # << >> /\ guess_code \in present_codes THEN TRUE
            ELSE IF guess_name \in BareWords
                 THEN DefaultCode(guess_name) \in present_codes
            ELSE \E i \in 1..Len(currency_objects) : \E a \in aliases[i] :
                    IF HasSymbolChar(a) THEN single /\ guess_symbol = a
                    ELSE guess_name # << >> /\ guess_name = a

CurrencyObject(code, name, symbol) == [code |-> code, name |-> name, symbol |-> symbol]

\* The currency records get_country_fields builds from the dataset: dollars
\* with names of two, three and four words and one named by the bare word
\* (their symbol is in _SYMBOL_CHARS), a currency with a symbol outside
\* _SYMBOL_CHARS, two with symbols made of letters, and one without name
\* and symbol.
CurrencyObjects ==
    { CurrencyObject(<<"U", "S", "D">>, <<"U", "n", "i", "t", "e", "d", " ", "S", "t", "a", "t", "e", "s", " ", "d", "o", "l", "l", "a", "r">>, <<"$">>),
      CurrencyObject(<<"A", "U", "D">>, <<"A", "u", "s", "t", "r", "a", "l", "i", "a", "n", " ", "d", "o", "l", "l", "a", "r">>, <<"$">>),
      CurrencyObject(<<"T", "T", "D">>, <<"T", "r", "i", "n", "i", "d", "a", "d", " ", "a", "n", "d", " ", "T", "o", "b", "a", "g", "o", " ", "d", "o", "l", "l", "a", "r">>, <<"$">>),
      CurrencyObject(<<"T", "V", "D">>, <<"D", "o", "l", "l", "a", "r">>, <<"$">>),
      CurrencyObject(<<"A", "Z", "N">>, <<"A", "z", "e", "r", "b", "a", "i", "j", "a", "n", "i", " ", "m", "a", "n", "a", "t">>, <<"manat_sign">>),
      CurrencyObject(<<"S", "E", "K">>, <<"S", "w", "e", "d", "i", "s", "h", " ", "k", "r", "o", "n", "a">>, <<"k", "r">>),
      CurrencyObject(<<"X", "A", "F">>, <<"C", "e", "n", "t", "r", "a", "l", " ", "A", "f", "r", "i", "c", "a", "n", " ", "C", "F", "A", " ", "f", "r", "a", "n", "c">>, <<"F", "r">>),
      CurrencyObject(<<"G", "B", "P">>, << >>, << >>) }

\* The currencies of a country: up to n records with different codes (the
\* codes are the keys of the dataset's currencies object).
RECURSIVE CurrencyLists(_)
CurrencyLists(n) ==
    IF n = 0 THEN {<< >>}
    ELSE LET shorter == CurrencyLists(n - 1)
         IN  shorter \cup
                {Append(l, c) : l \in {t \in shorter : Len(t) = n - 1},
                                c \in CurrencyObjects}

DistinctCodes(l) == \A i, j \in 1..Len(l) : l[i].code = l[j].code => i = j

\* Pieces of the guesses typed into the currency field.
CurrencyGuessParts ==
    { <<"d", "o", "l", "l", "a", "r">>, <<"D", "o", "l", "l", "a", "r">>,
      <<"d", "o_acute", "l", "l", "a", "r">>, <<" ">>, <<"$">>,
      <<"manat_sign">>, <<"k", "r">>, <<"K", "R">>, <<"F", "r">>,
      <<"u", "s", "d">>, <<"a", "u", "s", "t", "r", "a", "l", "i", "a", "n", " ">>,
      <<"t", "o", "b", "a", "g", "o", " ">>, <<"m", "a", "n", "a", "t">>,
      <<"p", "o", "u", "n", "d">> }

\* The guesses: nothing, one piece, or two pieces.
CurrencyGuesses ==
    {<< >>} \cup CurrencyGuessParts
        \cup {a \o b : a, b \in CurrencyGuessParts}

\* A country is picked and its currencies become the round's question.
ServeCurrencies ==
    /\ cur.pc = "none"
    /\ \E l \in {t \in CurrencyLists(MaxCurrencies) : DistinctCodes(t)} :
          cur' = [NoCurrencies EXCEPT !.pc = "asked", !.currency_objects = l]
    /\ UNCHANGED <<lbVars, webVars>>
    /\ UNCHANGED <<pop, txt, lang, comp>>

\* currency_guess_is_correct is called with a guess and the round's
\* currencies.
GuessCurrency ==
    /\ cur.pc = "asked"
    /\ \E guess_raw \in CurrencyGuesses :
          cur' = [cur EXCEPT
                    !.pc = "judged",
                    !.guess_raw = guess_raw,
                    !.ok = currency_guess_is_correct(guess_raw, cur.currency_objects)]
    /\ UNCHANGED <<lbVars, webVars>>
    /\ UNCHANGED <<pop, txt, lang, comp>>

NextCur == ServeCurrencies \/ GuessCurrency

\* The matchers and the name validator never reach the leaderboard: the
\* specifications about them start with one of its backends.
InitRules == Init /\ backend = "sqlite"

\* Currency questions served and judged.
SpecCur == InitRules /\ [][NextCur]_vars

\* The codes of the round's currencies, as the dataset gives them.
CodesServed ==
    {cur.currency_objects[i].code : i \in 1..Len(cur.currency_objects)}

\* C11: a guess whose norm_text form is exactly "dollar" is judged correct
\* if and only if USD is among the codes of the country's currencies.
C11_BareDollarMeansUSD ==
    cur.pc = "judged" /\ norm_text(cur.guess_raw) = <<"d", "o", "l", "l", "a", "r">> =>
        (cur.ok <=> <<"U", "S", "D">> \in CodesServed)

\* "$Dollar" has been judged incorrect for a country whose only currency is
\* officially named "Dollar" but is not USD.
C11_Witness ==
    /\ cur.pc = "judged"
    /\ cur.guess_raw = <<"$", "D", "o", "l", "l", "a", "r">>
    /\ cur.currency_objects = <<CurrencyObject(<<"T", "V", "D">>, <<"D", "o", "l", "l", "a", "r">>, <<"$">>)>>
    /\ ~cur.ok

\* The symbols of the round's currencies, as the matcher would compare them.
SymbolsServed ==
    {Strip(cur.currency_objects[i].symbol) : i \in 1..Len(cur.currency_objects)}
        \ {<< >>}

\* C12: with two or more currencies no alias set holds the symbol of its
\* currency and a guess that is just a symbol of the country's currencies
\* is incorrect: such a guess is correct only with exactly one currency.
C12_SymbolOnlyForSingleCurrency ==
    cur.pc = "judged" =>
        /\ Len(cur.currency_objects) >= 2 =>
              \A i \in 1..Len(cur.currency_objects) :
                  AliasSets(cur.currency_objects)[i] \cap SymbolsServed = {}
        /\ Strip(cur.guess_raw) \in SymbolsServed /\ cur.ok =>
              Len(cur.currency_objects) = 1

\* "$" has been judged incorrect for a country with two dollar currencies.
C12_Witness ==
    /\ cur.pc = "judged"
    /\ Len(cur.currency_objects) = 2
    /\ \A i \in 1..2 : cur.currency_objects[i].symbol = <<"$">>
    /\ cur.guess_raw = <<"$">>
    /\ ~cur.ok

\* C17: an empty or all-whitespace guess is judged incorrect whatever the
\* currencies, every guess is judged incorrect for a country without
\* currencies, and in both cases the call returns a verdict.
C17_NoGuessOrNoCurrencies ==
    cur.pc = "judged" /\ (Strip(cur.guess_raw) = << >> \/ cur.currency_objects = << >>) =>
        cur.ok = FALSE

\* A guess of one space has been judged incorrect for a country with a
\* currency, and so has the guess "usd" for a country without currencies.
C17_Witness ==
    /\ cur.pc = "judged"
    /\ \/ cur.guess_raw = <<" ">> /\ Len(cur.currency_objects) = 1
       \/ cur.guess_raw = <<"u", "s", "d">> /\ cur.currency_objects = << >>
    /\ ~cur.ok

\* The aliases of a currency that do not stand for its symbol.
NamedAliases(c) == currency_aliases(c.code, c.name, << >>, FALSE)

\* C18: the symbol of a currency is compared with the raw guess and with
\* nothing else, and every other alias with the norm_text form of the guess
\* and with nothing else, whatever the symbol is: past the code check and
\* the bare-word rule, a guess is correct exactly when its norm_text form is
\* one of the other aliases or, for a single currency, the raw guess is the
\* symbol.
C18_SymbolsComparedRaw ==
    cur.pc = "judged" /\ Strip(cur.guess_raw) # << >> =>
        LET g == Strip(cur.guess_raw)
            l == cur.currency_objects
        IN  cur.ok <=>
                \/ norm_code(g) # << >> /\ norm_code(g) \in CodesServed
                \/ norm_text(g) = <<"d", "o", "l", "l", "a", "r">> /\ <<"U", "S", "D">> \in CodesServed
                \/ /\ norm_text(g) # <<"d", "o", "l", "l", "a", "r">>
                   /\ \E i \in 1..Len(l) :
                         \/ norm_text(g) \in NamedAliases(l[i])
                         \/ /\ Len(l) = 1
                            /\ l[i].symbol # << >>
                            /\ g = Strip(l[i].symbol)

\* The words of the official name of the i-th currency served.
NameWords(i) == Words(norm_text(cur.currency_objects[i].name))

\* The core aliases of the i-th currency served.
CoreAliases(i) ==
    _core_aliases_from_official_name(upper(cur.currency_objects[i].code),
                                     cur.currency_objects[i].name)

\* The suffix of n words of a sequence of words, as one string.
Suffix(ws, n) ==
    LET from == Len(ws) - n + 1
        F[k \in from..Len(ws)] ==
            IF k = Len(ws) THEN ws[k] ELSE ws[k] \o <<" ">> \o F[k + 1]
    IN  F[from]

MaxLanguages == 2

\* LANGUAGE_SYNONYMS, as pairs <<token, synonym>>.
LANGUAGE_SYNONYMS ==
    {
      <<<<"p", "e", "r", "s", "i", "a", "n">>, <<"f", "a", "r", "s", "i">>>>,
      <<<<"f", "a", "r", "s", "i">>, <<"p", "e", "r", "s", "i", "a", "n">>>>,
      <<<<"f", "i", "l", "i", "p", "i", "n", "o">>, <<"t", "a", "g", "a", "l", "o", "g">>>>,
      <<<<"t", "a", "g", "a", "l", "o", "g">>, <<"f", "i", "l", "i", "p", "i", "n", "o">>>>,
      <<<<"b", "u", "r", "m", "e", "s", "e">>, <<"m", "y", "a", "n", "m", "a", "r">>>>,
      <<<<"m", "y", "a", "n", "m", "a", "r">>, <<"b", "u", "r", "m", "e", "s", "e">>>>,
      <<<<"g", "r", "e", "e", "k">>, <<"h", "e", "l", "l", "e", "n", "i", "c">>>>,
      <<<<"h", "e", "l", "l", "e", "n", "i", "c">>, <<"g", "r", "e", "e", "k">>>>,
      <<<<"c", "h", "i", "n", "e", "s", "e">>, <<"m", "a", "n", "d", "a", "r", "i", "n">>>>,
      <<<<"m", "a", "n", "d", "a", "r", "i", "n">>, <<"c", "h", "i", "n", "e", "s", "e">>>>,
      <<<<"s", "l", "o", "v", "a", "k">>, <<"s", "l", "o", "v", "a", "k", "i", "a", "n">>>>,
      <<<<"s", "l", "o", "v", "a", "k", "i", "a", "n">>, <<"s", "l", "o", "v", "a", "k">>>>,
      <<<<"s", "w", "a", "h", "i", "l", "i">>, <<"k", "i", "s", "w", "a", "h", "i", "l", "i">>>>,
      <<<<"k", "i", "s", "w", "a", "h", "i", "l", "i">>, <<"s", "w", "a", "h", "i", "l", "i">>>>,
      <<<<"l", "a", "o">>, <<"l", "a", "o", "t", "i", "a", "n">>>>,
      <<<<"l", "a", "o", "t", "i", "a", "n">>, <<"l", "a", "o">>>>,
      <<<<"i", "r", "i", "s", "h">>, <<"g", "a", "e", "l", "i", "c">>>>,
      <<<<"g", "a", "e", "l", "i", "c">>, <<"i", "r", "i", "s", "h">>>>,
      <<<<"n", "o", "r", "w", "e", "g", "i", "a", "n", " ", "b", "o", "k", "m", "a", "l">>, <<"n", "o", "r", "w", "e", "g", "i", "a", "n">>>>,
      <<<<"n", "o", "r", "w", "e", "g", "i", "a", "n", " ", "n", "y", "n", "o", "r", "s", "k">>, <<"n", "o", "r", "w", "e", "g", "i", "a", "n">>>>,
      <<<<"n", "o", "r", "w", "e", "g", "i", "a", "n">>, <<"n", "o", "r", "w", "e", "g", "i", "a", "n", " ", "b", "o", "k", "m", "a", "l">>>>,
      <<<<"n", "o", "r", "w", "e", "g", "i", "a", "n">>, <<"n", "o", "r", "w", "e", "g", "i", "a", "n", " ", "n", "y", "n", "o", "r", "s", "k">>>>,
      <<<<"m", "a", "l", "a", "y">>, <<"b", "a", "h", "a", "s", "a", " ", "m", "a", "l", "a", "y", "s", "i", "a">>>>,
      <<<<"b", "a", "h", "a", "s", "a", " ", "m", "a", "l", "a", "y", "s", "i", "a">>, <<"m", "a", "l", "a", "y">>>>,
      <<<<"i", "n", "d", "o", "n", "e", "s", "i", "a", "n">>, <<"b", "a", "h", "a", "s", "a", " ", "i", "n", "d", "o", "n", "e", "s", "i", "a">>>>,
      <<<<"b", "a", "h", "a", "s", "a", " ", "i", "n", "d", "o", "n", "e", "s", "i", "a">>, <<"i", "n", "d", "o", "n", "e", "s", "i", "a", "n">>>>,
      <<<<"h", "i", "n", "d", "i">>, <<"h", "i", "n", "d", "u", "s", "t", "a", "n", "i">>>>,
      <<<<"h", "i", "n", "d", "u", "s", "t", "a", "n", "i">>, <<"h", "i", "n", "d", "i">>>>,
      <<<<"r", "o", "m", "a", "n", "i", "a", "n">>, <<"m", "o", "l", "d", "o", "v", "a", "n">>>>,
      <<<<"m", "o", "l", "d", "o", "v", "a", "n">>, <<"r", "o", "m", "a", "n", "i", "a", "n">>>>,
      <<<<"k", "h", "m", "e", "r">>, <<"c", "a", "m", "b", "o", "d", "i", "a", "n">>>>,
      <<<<"c", "a", "m", "b", "o", "d", "i", "a", "n">>, <<"k", "h", "m", "e", "r">>>>,
      <<<<"s", "i", "n", "h", "a", "l", "e", "s", "e">>, <<"s", "i", "n", "h", "a", "l", "a">>>>,
      <<<<"s", "i", "n", "h", "a", "l", "a">>, <<"s", "i", "n", "h", "a", "l", "e", "s", "e">>>>,
      <<<<"h", "a", "i", "t", "i", "a", "n", " ", "c", "r", "e", "o", "l", "e">>, <<"h", "a", "i", "t", "i", "a", "n">>>>,
      <<<<"h", "a", "i", "t", "i", "a", "n">>, <<"h", "a", "i", "t", "i", "a", "n", " ", "c", "r", "e", "o", "l", "e">>>>,
      <<<<"d", "u", "t", "c", "h">>, <<"f", "l", "e", "m", "i", "s", "h">>>>,
      <<<<"d", "u", "t", "c", "h">>, <<"n", "e", "d", "e", "r", "l", "a", "n", "d", "s">>>>,
      <<<<"n", "e", "d", "e", "r", "l", "a", "n", "d", "s">>, <<"d", "u", "t", "c", "h">>>>,
      <<<<"f", "l", "e", "m", "i", "s", "h">>, <<"d", "u", "t", "c", "h">>>>
    }

\* A mutant of SynonymsOf: the synonyms of the synonyms are synonyms too.
SynonymsOfSynonyms(t) ==
    LET direct == {p[2] : p \in {q \in LANGUAGE_SYNONYMS : q[1] = t}}
    IN  direct \cup UNION {{p[2] : p \in {q \in LANGUAGE_SYNONYMS : q[1] = d}} : d \in direct}

\* LANGUAGE_SYNONYMS.get(t, set())
SynonymsOf(t) == {p[2] : p \in {q \in LANGUAGE_SYNONYMS : q[1] = t}}

\* The alternatives of _SPLIT_RE, in lower case (the pattern ignores case).
_SPLIT_RE ==
    { <<"(">>, <<")">>, <<",">>, <<";">>, <<"/">>,
      <<" ", "a", "n", "d", " ">>, <<" ", "o", "r", " ">>, <<" ", "a", "k", "a", " ">>, <<" ", "a", ".", "k", ".", "a", ".", " ">> }

\* The alternative of _SPLIT_RE that matches at the start of s, if any.
MatchesAtStart(s) ==
    {sep \in _SPLIT_RE :
        /\ Len(s) >= Len(sep)
        /\ \A i \in 1..Len(sep) : LowerChar(s[i]) = sep[i]}

\* _SPLIT_RE.split(label): the pieces between the matches, left to right.
\* parts are the pieces completed so far and piece is the one being read.
RECURSIVE SplitFrom(_, _, _)
SplitFrom(s, piece, parts) ==
    IF s = << >> THEN Append(parts, piece)
    ELSE IF MatchesAtStart(s) # {}
         THEN SplitFrom(SubSeq(s, Len(CHOOSE m \in MatchesAtStart(s) : TRUE) + 1, Len(s)),
                        << >>, Append(parts, piece))
         ELSE SplitFrom(Tail(s), Append(piece, Head(s)), parts)

re_split(s) == SplitFrom(s, << >>, << >>)

\* language._explode_label
_explode_label(label) ==
    IF label = << >> THEN {}
    ELSE LET parts == re_split(label)
         IN  ({norm_text(parts[i]) : i \in 1..Len(parts)} \cup {norm_text(label)})
                \ {<< >>}

\* A mutant of build_accepted_language_answers: no synonym is added.
AcceptedWithoutSynonyms(languages) ==
    UNION {_explode_label(languages[i]) : i \in 1..Len(languages)}

\* language.build_accepted_language_answers
build_accepted_language_answers(languages) ==
    LET accepted == UNION {_explode_label(languages[i]) : i \in 1..Len(languages)}
    IN  accepted \cup UNION {SynonymsOf(t) : t \in accepted}

\* language.language_guess_is_correct
language_guess_is_correct(guess_raw, languages) ==
    IF guess_raw = << >> THEN FALSE
    ELSE IF norm_text(guess_raw) = << >> THEN FALSE
    ELSE norm_text(guess_raw) \in build_accepted_language_answers(languages)

\* The language labels get_country_fields takes from the dataset: labels of
\* one language, labels that name several with each kind of separator, a
\* label with an accented letter, and an empty label.
LanguageLabels ==
    { <<"P", "e", "r", "s", "i", "a", "n", " ", "(", "F", "a", "r", "s", "i", ")">>, <<"D", "u", "t", "c", "h">>, <<"N", "e", "d", "e", "r", "l", "a", "n", "d", "s">>,
      <<"N", "o", "r", "w", "e", "g", "i", "a", "n", " ", "B", "o", "k", "m", "a_ring", "l">>, <<"I", "r", "i", "s", "h", " ", "A", "N", "D", " ", "E", "n", "g", "l", "i", "s", "h">>,
      <<"H", "i", "n", "d", "i", "/", "U", "r", "d", "u", " ", "o", "r", " ", "T", "a", "m", "i", "l", ";", " ", "M", "a", "l", "a", "y">>,
      <<"L", "a", "o", " ", "a", ".", "k", ".", "a", ".", " ", "L", "a", "o", "t", "i", "a", "n", ",", " ", "T", "h", "a", "i", " ", "a", "k", "a", " ", "S", "i", "a", "m", "e", "s", "e">>, << >> }

\* The labels of a country: up to n of them.
RECURSIVE LanguageLists(_)
LanguageLists(n) ==
    IF n = 0 THEN {<< >>}
    ELSE LET shorter == LanguageLists(n - 1)
         IN  shorter \cup
                {Append(l, c) : l \in {t \in shorter : Len(t) = n - 1},
                                c \in LanguageLabels}

\* The guesses typed into the language field.
LanguageGuesses ==
    { << >>, <<" ">>, <<"!">>, <<"p", "e", "r", "s", "i", "a", "n">>, <<" ", "F", "a", "r", "s", "i", " ">>, <<"P", "E", "R", "S", "I", "A", "N">>,
      <<"p", "e", "r", "s", "i", "a", "n", " ", "f", "a", "r", "s", "i">>, <<"P", "e", "r", "s", "i", "a", "n", " ", "(", "F", "a", "r", "s", "i", ")">>,
      <<"d", "u", "t", "c", "h">>, <<"f", "l", "e", "m", "i", "s", "h">>, <<"N", "e", "d", "e", "r", "l", "a", "n", "d", "s">>,
      <<"n", "o", "r", "w", "e", "g", "i", "a", "n">>, <<"n", "o", "r", "w", "e", "g", "i", "a", "n", " ", "b", "o", "k", "m", "a", "l">>, <<"N", "o", "r", "w", "e", "g", "i", "a", "n", "-", "B", "o", "k", "m", "a_ring", "l">>,
      <<"n", "o", "r", "w", "e", "g", "i", "a", "n", " ", "n", "y", "n", "o", "r", "s", "k">>,
      <<"i", "r", "i", "s", "h">>, <<"g", "a", "e", "l", "i", "c">>, <<"i", "r", "i", "s", "h", " ", "a", "n", "d", " ", "e", "n", "g", "l", "i", "s", "h">>,
      <<"h", "i", "n", "d", "i">>, <<"h", "i", "n", "d", "u", "s", "t", "a", "n", "i">>, <<"u", "r", "d", "u">>, <<"t", "a", "m", "i", "l">>,
      <<"h", "i", "n", "d", "i", " ", "u", "r", "d", "u", " ", "o", "r", " ", "t", "a", "m", "i", "l", " ", "m", "a", "l", "a", "y">>, <<"m", "a", "l", "a", "y">>, <<"b", "a", "h", "a", "s", "a", " ", "m", "a", "l", "a", "y", "s", "i", "a">>,
      <<"l", "a", "o">>, <<"l", "a", "o", "t", "i", "a", "n">>, <<"s", "i", "a", "m", "e", "s", "e">>, <<"k", "l", "i", "n", "g", "o", "n">> }

\* A country is picked and its language labels become the round's question.
ServeLanguages ==
    /\ lang.pc = "none"
    /\ \E l \in LanguageLists(MaxLanguages) :
          lang' = [NoLanguages EXCEPT !.pc = "asked", !.languages = l]
    /\ UNCHANGED <<lbVars, webVars>>
    /\ UNCHANGED <<pop, txt, cur, comp>>

\* language_guess_is_correct is called with a guess and the round's labels.
GuessLanguage ==
    /\ lang.pc = "asked"
    /\ \E guess_raw \in LanguageGuesses :
          lang' = [lang EXCEPT
                     !.pc = "judged",
                     !.guess_raw = guess_raw,
                     !.ok = language_guess_is_correct(guess_raw, lang.languages)]
    /\ UNCHANGED <<lbVars, webVars>>
    /\ UNCHANGED <<pop, txt, cur, comp>>

NextLang == ServeLanguages \/ GuessLanguage

\* Language questions served and judged.
SpecLang == InitRules /\ [][NextLang]_vars

\* The tokens of the round's labels: the normalized fragments of each label
\* and each normalized whole label.
TokensServed ==
    UNION {_explode_label(lang.languages[i]) : i \in 1..Len(lang.languages)}

\* What the synonym table lists for the tokens of the round's labels.
ListedForTokens ==
    UNION {{p[2] : p \in {q \in LANGUAGE_SYNONYMS : q[1] = t}} : t \in TokensServed}

\* C13: a guess is judged correct if and only if its norm_text form is not
\* empty and is a token of the labels or listed in the synonym table for
\* one of those tokens; an empty guess is judged incorrect.
C13_LanguageVerdict ==
    lang.pc = "judged" =>
        /\ lang.ok <=>
              /\ norm_text(lang.guess_raw) # << >>
              /\ norm_text(lang.guess_raw) \in TokensServed \cup ListedForTokens
        /\ lang.guess_raw = << >> => ~lang.ok

\* " Farsi " has been judged correct for the labels ["Persian (Farsi)"].
C13_Witness ==
    /\ lang.pc = "judged"
    /\ lang.languages = << <<"P", "e", "r", "s", "i", "a", "n", " ", "(", "F", "a", "r", "s", "i", ")">> >>
    /\ lang.guess_raw = <<" ", "F", "a", "r", "s", "i", " ">>
    /\ lang.ok

\* C20: the accepted set is the tokens of the labels and what the table
\* lists for those tokens, nothing more: a synonym of a synonym is accepted
\* only if it is itself a token or listed for a token.
C20_OneLevelOfSynonyms ==
    lang.pc = "judged" =>
        /\ build_accepted_language_answers(lang.languages)
              = TokensServed \cup ListedForTokens
        /\ lang.ok => norm_text(lang.guess_raw) \in TokensServed \cup ListedForTokens
        /\ lang.languages = << <<"D", "u", "t", "c", "h">> >> /\ lang.guess_raw = <<"f", "l", "e", "m", "i", "s", "h">> => lang.ok
        /\ lang.languages = << <<"N", "e", "d", "e", "r", "l", "a", "n", "d", "s">> >> =>
              /\ lang.guess_raw = <<"d", "u", "t", "c", "h">> => lang.ok
              /\ lang.guess_raw = <<"f", "l", "e", "m", "i", "s", "h">> => ~lang.ok

\* "flemish", which the table lists for "dutch" and "dutch" for
\* "nederlands", has been judged incorrect for the labels ["Nederlands"].
C20_Witness ==
    /\ lang.pc = "judged"
    /\ lang.languages = << <<"N", "e", "d", "e", "r", "l", "a", "n", "d", "s">> >>
    /\ lang.guess_raw = <<"f", "l", "e", "m", "i", "s", "h">>
    /\ ~lang.ok

\* --------------------------------------- rules/competition: player names

\* The longest name validate_player_name accepts.
MaxNameLength == 24

\* The character class of NAME_ALLOWED_RE.
NAME_ALLOWED_RE ==
    AsciiLowerSet \cup AsciiUpperSet \cup DecimalDigits \cup {" ", "'", "-"}

PROFANITY ==
    { <<"f", "u", "c", "k">>, <<"s", "h", "i", "t">>, <<"c", "u", "n", "t">>, <<"b", "i", "t", "c", "h">>, <<"w", "a", "n", "k", "e", "r">>, <<"t", "w", "a", "t">> }

\* competition.normalize_player_name
normalize_player_name(name_raw) == CollapseWs(Strip(name_raw))

\* str.isalpha(), one character.
isalpha(c) ==
    c \in AsciiLowerSet \cup AsciiUpperSet
            \cup {"e_acute", "E_acute", "a_ring", "o_acute", "script_M"}

\* bad in n
Contains(n, bad) ==
    \E i \in 1..(Len(n) - Len(bad) + 1) : SubSeq(n, i, i + Len(bad) - 1) = bad

Result(ok, err) == [ok |-> ok, err |-> err]

\* A mutant of validate_player_name: the letters are counted before the
\* characters are checked.
ValidateLettersBeforeCharacters(name_raw) ==
    LET name == normalize_player_name(name_raw)
    IN  IF name = << >> THEN Result(FALSE, "Please enter a name.")
        ELSE IF Len(name) > MaxNameLength
             THEN Result(FALSE, "Name is too long (max 24 characters).")
        ELSE IF Cardinality({i \in 1..Len(name) : isalpha(name[i])}) < 3
             THEN Result(FALSE, "Name must include at least 3 letters.")
        ELSE IF \E i \in 1..Len(name) : name[i] \notin NAME_ALLOWED_RE
             THEN Result(FALSE, "Name can only contain letters, numbers, spaces, apostrophes, and hyphens.")
        ELSE IF \E bad \in PROFANITY : Contains(norm_text(name), bad)
             THEN Result(FALSE, "Please choose a different name.")
        ELSE Result(TRUE, "")

\* competition.validate_player_name: the pair (ok, error_message).
validate_player_name(name_raw) ==
    IF name_raw = << >> THEN Result(FALSE, "Please enter a name.")
    ELSE
        LET name == normalize_player_name(name_raw)
        IN  IF name = << >> THEN Result(FALSE, "Please enter a name.")
            ELSE IF Len(name) > MaxNameLength
                 THEN Result(FALSE, "Name is too long (max 24 characters).")
            ELSE IF \E i \in 1..Len(name) : name[i] \notin NAME_ALLOWED_RE
                 THEN Result(FALSE, "Name can only contain letters, numbers, spaces, apostrophes, and hyphens.")
            ELSE IF Cardinality({i \in 1..Len(name) : isalpha(name[i])}) < 3
                 THEN Result(FALSE, "Name must include at least 3 letters.")
            ELSE IF \E bad \in PROFANITY : Contains(norm_text(name), bad)
                 THEN Result(FALSE, "Please choose a different name.")
            ELSE Result(TRUE, "")

\* Pieces of the names typed into the form of /competition/start.
NameParts ==
    { <<"A", "l">>, <<"A", "b", "c">>, <<"a", " ", "\t", " ", "b">>, <<" ">>, <<"\t">>, <<"!">>, <<"B", "a", "d", "!">>, <<"-">>,
      <<"'">>, <<"1">>, <<"s", "h", "i", "t">>, <<"S", "h", "i", "t">>, <<"s", "h">>, <<"i", "t">>, <<"-", "i", "t">>, <<"e_acute">>,
      [i \in 1..(MaxNameLength - 3) |-> "a"] }

\* The names posted: nothing, one piece, or two pieces.
PostedNames == {<< >>} \cup NameParts \cup {a \o b : a, b \in NameParts}

\* competition_start (POST): the posted name is validated; a rejected name
\* shows the form again, an accepted one starts the competition.
CompetitionStart ==
    /\ comp.pc \in {"none", "rejected"}
    /\ \E posted \in PostedNames :
          LET name_raw == Strip(posted)
              r == validate_player_name(name_raw)
          IN  comp' = IF ~r.ok
                      THEN [comp EXCEPT !.pc = "rejected", !.name_raw = name_raw,
                                        !.ok = FALSE, !.err = r.err]
                      ELSE [comp EXCEPT !.pc = "playing", !.name_raw = name_raw,
                                        !.ok = TRUE, !.err = r.err,
                                        !.comp_name = name_raw, !.comp_round = 1,
                                        !.comp_score = 0, !.comp_seen = << >>]
    /\ UNCHANGED <<lbVars, webVars>>
    /\ UNCHANGED <<pop, txt, cur, lang>>

NextName == CompetitionStart

\* Names posted to /competition/start.
SpecName == InitRules /\ [][NextName]_vars

\* The name with its ends trimmed and its whitespace runs collapsed to
\* single spaces.
CleanedName(s) == join(split(s))

\* Whether rule k of the five fails on a cleaned name.
RuleFails(k, nm) ==
    CASE k = 1 -> nm = << >>
      [] k = 2 -> Len(nm) > 24
      [] k = 3 -> \E i \in 1..Len(nm) :
                     nm[i] \notin AsciiLowerSet \cup AsciiUpperSet \cup DecimalDigits
                                    \cup {" ", "'", "-"}
      [] k = 4 -> Cardinality({i \in 1..Len(nm) :
                     nm[i] \in AsciiLowerSet \cup AsciiUpperSet}) < 3
      [] k = 5 -> \E bad \in PROFANITY : \E i, j \in 1..Len(norm_text(nm)) :
                     SubSeq(norm_text(nm), i, j) = bad

RuleReason(k) ==
    CASE k = 1 -> "Please enter a name."
      [] k = 2 -> "Name is too long (max 24 characters)."
      [] k = 3 -> "Name can only contain letters, numbers, spaces, apostrophes, and hyphens."
      [] k = 4 -> "Name must include at least 3 letters."
      [] k = 5 -> "Please choose a different name."

\* C14: the result of validate_player_name is the rejection with the reason
\* of the first of the five rules, in their order, that fails on the cleaned
\* name, and the acceptance when none fails.
C14_FirstFailingRule ==
    comp.pc \in {"rejected", "playing"} =>
        LET nm == CleanedName(comp.name_raw)
            failed == {k \in 1..5 : RuleFails(k, nm)}
        IN  IF failed = {} THEN comp.ok /\ comp.err = ""
            ELSE /\ ~comp.ok
                 /\ \E k \in failed :
                       /\ \A other \in failed : k <= other
                       /\ comp.err = RuleReason(k)

\* A name of 25 characters with a character that is not allowed has been
\* rejected as too long.
C14_Witness ==
    /\ comp.pc = "rejected"
    /\ comp.name_raw = [i \in 1..21 |-> "a"] \o <<"B", "a", "d", "!">>
    /\ comp.err = "Name is too long (max 24 characters)."

\* C15: the name kept in the session of an accepted player is the cleaned
\* name: its ends trimmed and its whitespace runs collapsed to single
\* spaces.
C15_CleanedNameKept ==
    comp.pc = "playing" => comp.comp_name = CleanedName(comp.name_raw)

\* ------------------------------------------------------ the country list

\* How many refresh periods of the cache the clock is followed through.
MaxPeriods == 2

JsonCountry(name, capital, population, languages, currencies) ==
    [name |-> name, capital |-> capital,
     population |-> [kind |-> "int", value |-> population],
     languages |-> languages, currencies |-> currencies]

\* The country list the upstream API serves (cut down to three countries,
\* their populations scaled down): one with one currency, one with two
\* languages and two currencies, and one without a capital.
Countries ==
    << JsonCountry(<<"S", "w", "e", "d", "e", "n">>, <<<<"S", "t", "o", "c", "k", "h", "o", "l", "m">>>>, 1000, <<<<"S", "w", "e", "d", "i", "s", "h">>>>,
                   <<CurrencyObject(<<"S", "E", "K">>, <<"S", "w", "e", "d", "i", "s", "h", " ", "k", "r", "o", "n", "a">>, <<"k", "r">>)>>),
       JsonCountry(<<"T", "u", "v", "a", "l", "u">>, <<<<"F", "u", "n", "a", "f", "u", "t", "i">>>>, 10, <<<<"E", "n", "g", "l", "i", "s", "h">>, <<"T", "u", "v", "a", "l", "u", "a", "n">>>>,
                   <<CurrencyObject(<<"A", "U", "D">>, <<"A", "u", "s", "t", "r", "a", "l", "i", "a", "n", " ", "d", "o", "l", "l", "a", "r">>, <<"$">>),
                     CurrencyObject(<<"T", "V", "D">>, <<"T", "u", "v", "a", "l", "u", "a", "n", " ", "d", "o", "l", "l", "a", "r">>, <<"$">>)>>),
       JsonCountry(<<"M", "a", "c", "a", "u">>, << >>, 600, <<<<"P", "o", "r", "t", "u", "g", "u", "e", "s", "e">>>>,
                   <<CurrencyObject(<<"M", "O", "P">>, <<"M", "a", "c", "a", "n", "e", "s", "e", " ", "p", "a", "t", "a", "c", "a">>, <<"P">>)>>) >>

\* The list as an earlier day served it, one country shorter.
EarlierCountries == SubSeq(Countries, 1, Len(Countries) - 1)

safe_first(lst) == IF lst = << >> THEN << >> ELSE lst[1]

\* The fields of a country the quiz asks about. (A missing name or capital
\* is the empty string here: the handlers test both for truth only.)
get_country_fields(country) ==
    [kind |-> "dict",
     name |-> country.name,
     capital |-> safe_first(country.capital),
     population |-> IF country.population.kind = "int" THEN country.population
                    ELSE [kind |-> "None", value |-> 0],
     languages |-> country.languages,
     currencies |-> country.currencies]

FALLBACK_REFRESH_DAYS == 7
FALLBACK_REFRESH_SECONDS == FALLBACK_REFRESH_DAYS * 24 * 60 * 60
CACHE_TTL_SECONDS == 60 * 60 * 6

\* An exception where a JSON value is expected.
Raised == [kind |-> "raise", value |-> << >>]

\* Python's truth of a JSON value: None and the empty list are false.
Truthy(data) == data.kind = "list" /\ data.value # << >>

\* load_fallback_countries(): None when the file is missing, json.load's
\* exception when the file is not JSON, its content otherwise.
load_fallback_countries(file) ==
    IF ~file.exists THEN NoData
    ELSE IF file.content.kind = "corrupt" THEN Raised
    ELSE file.content

\* fallback_is_stale(now): a missing file is stale.
fallback_is_stale(file, now) ==
    IF ~file.exists THEN TRUE
    ELSE (now - file.mtime) > FALLBACK_REFRESH_SECONDS

\* save_fallback_countries(data): the file is replaced, unless writing it
\* fails (the caller logs the exception and goes on).
save_fallback_countries(file, data, now, save_ok) ==
    IF save_ok THEN [exists |-> TRUE, content |-> data, mtime |-> now] ELSE file

\* A mutant of get_countries_cached: a failed refresh empties the cache.
GetCountriesDropsStale(cache, file, now, fetch, save_ok) ==
    IF cache.data.kind # "None" /\ (now - cache.fetched_at) <= CACHE_TTL_SECONDS
    THEN [cache |-> cache, file |-> file, ret |-> cache.data,
          fetched |-> FALSE, loaded |-> "none"]
    ELSE IF fetch.kind # "raise"
    THEN [cache |-> [data |-> fetch, fetched_at |-> now],
          file |-> IF fallback_is_stale(file, now)
                   THEN save_fallback_countries(file, fetch, now, save_ok)
                   ELSE file,
          ret |-> fetch, fetched |-> TRUE, loaded |-> "none"]
    ELSE [cache |-> [data |-> NoData, fetched_at |-> cache.fetched_at],
          file |-> file, ret |-> Raised, fetched |-> TRUE, loaded |-> "none"]

\* get_countries_cached() called at time now, fetch_countries() returning
\* or raising as `fetch` says: the cache and the fallback file it leaves,
\* and what it returns (Raised: the fetch's exception leaves the function).
get_countries_cached(cache, file, now, fetch, save_ok) ==
    IF cache.data.kind # "None" /\ (now - cache.fetched_at) <= CACHE_TTL_SECONDS
    THEN [cache |-> cache, file |-> file, ret |-> cache.data,
          fetched |-> FALSE, loaded |-> "none"]
    ELSE IF fetch.kind # "raise"
    THEN [cache |-> [data |-> fetch, fetched_at |-> now],
          file |-> IF fallback_is_stale(file, now)
                   THEN save_fallback_countries(file, fetch, now, save_ok)
                   ELSE file,
          ret |-> fetch, fetched |-> TRUE, loaded |-> "none"]
    ELSE IF cache.data.kind # "None"
    THEN [cache |-> cache, file |-> file, ret |-> cache.data,
          fetched |-> TRUE, loaded |-> "none"]
    ELSE LET data == load_fallback_countries(file)
         IN  IF Truthy(data)
             THEN [cache |-> [data |-> data, fetched_at |-> now], file |-> file,
                   ret |-> data, fetched |-> TRUE, loaded |-> data.kind]
             ELSE [cache |-> cache, file |-> file, ret |-> Raised,
                   fetched |-> TRUE, loaded |-> data.kind]

\* What fetch_countries() does: it raises (network, HTTP status, bad JSON)
\* or returns the list the API serves, which may be today's list, an
\* earlier one, or empty.
FetchOutcomes == {Raised, List(Countries), List(EarlierCountries), List(<< >>)}

\* What the fallback file may hold when the process starts: a list, an
\* empty list, null, or bytes that are not JSON.
FallbackContents ==
    {List(EarlierCountries), List(<< >>), NoData, [kind |-> "corrupt", value |-> << >>]}

\* The process starts a week and a second after time 0; the instants the
\* clock is read at are the whole refresh periods after that and the
\* second after each.
StartTime == FALLBACK_REFRESH_SECONDS + 1
Instants == {StartTime + k * CACHE_TTL_SECONDS + e : k \in 0..MaxPeriods, e \in 0..1}

\* Time passes.
Elapse ==
    /\ \E t \in Instants : t > wall /\ wall' = t
    /\ UNCHANGED <<_COUNTRY_CACHE, fallback, got, session>>
    /\ UNCHANGED <<lbVars, quizVars>>

\* One whole get_countries_cached call.
GetCountriesCached ==
    /\ \E fetch \in FetchOutcomes, save_ok \in BOOLEAN :
          LET r == get_countries_cached(_COUNTRY_CACHE, fallback, wall, fetch, save_ok)
          IN  /\ _COUNTRY_CACHE' = r.cache
              /\ fallback' = r.file
              /\ got' = [pc |-> IF r.ret.kind = "raise" THEN "raised" ELSE "returned",
                         now |-> wall,
                         data |-> _COUNTRY_CACHE.data,
                         fetched_at |-> _COUNTRY_CACHE.fetched_at,
                         fetched |-> r.fetched,
                         fetch |-> IF r.fetched THEN fetch ELSE NoData,
                         loaded |-> r.loaded,
                         ret |-> r.ret]
    /\ UNCHANGED <<wall, session>>
    /\ UNCHANGED <<lbVars, quizVars>>

NextCache == Elapse \/ GetCountriesCached

\* The process starts with an empty cache; the fallback file is missing,
\* or was written a week and a second ago, or exactly a week ago.
InitCache ==
    /\ InitQuiz
    /\ backend = "sqlite"
    /\ _COUNTRY_CACHE = [data |-> NoData, fetched_at |-> 0]
    /\ \/ fallback = [exists |-> FALSE, content |-> NoData, mtime |-> 0]
       \/ \E content \in FallbackContents, mtime \in 0..1 :
             fallback = [exists |-> TRUE, content |-> content, mtime |-> mtime]
    /\ wall = StartTime
    /\ got = NoGet
    /\ session = NoSession

\* Calls of get_countries_cached as time passes.
SpecCache == InitCache /\ [][NextCache]_vars

\* The age of the cache at the last call, and whether the fallback file
\* holds a non-empty list.
CacheAge == got.now - got.fetched_at
FallbackHasData ==
    fallback.exists /\ fallback.content.kind = "list" /\ fallback.content.value # << >>

\* C24: get_countries_cached raises only when the fetch failed, the cache
\* was empty and the fallback file yields no data. A call that finds data
\* in the cache returns without raising and leaves data in the cache: the
\* cached data, with no fetch, while its age is at most CACHE_TTL_SECONDS;
\* the fetched data when the cache is older and the fetch succeeds; the
\* cached data, the cache unchanged, when the cache is older and the fetch
\* fails.
C24_CacheFailsOnlyWhenEmpty ==
    /\ got.pc = "raised" =>
          /\ got.fetched /\ got.fetch.kind = "raise"
          /\ got.data.kind = "None"
          /\ ~FallbackHasData
    /\ (got.pc # "none" /\ got.data.kind # "None") =>
          /\ got.pc = "returned"
          /\ _COUNTRY_CACHE.data.kind # "None"
          /\ CacheAge <= CACHE_TTL_SECONDS =>
                /\ ~got.fetched
                /\ got.ret = got.data
                /\ _COUNTRY_CACHE = [data |-> got.data, fetched_at |-> got.fetched_at]
          /\ (CacheAge > CACHE_TTL_SECONDS /\ got.fetch.kind # "raise") =>
                /\ got.fetched
                /\ got.ret = got.fetch
                /\ _COUNTRY_CACHE = [data |-> got.fetch, fetched_at |-> got.now]
          /\ (CacheAge > CACHE_TTL_SECONDS /\ got.fetch.kind = "raise") =>
                /\ got.fetched
                /\ got.ret = got.data
                /\ _COUNTRY_CACHE = [data |-> got.data, fetched_at |-> got.fetched_at]

\* A call found data older than the TTL in the cache, its fetch failed, and
\* it returned the stale data.
C24_Witness ==
    /\ got.pc = "returned"
    /\ got.data = List(Countries)
    /\ CacheAge > CACHE_TTL_SECONDS
    /\ got.fetched /\ got.fetch.kind = "raise"
    /\ got.ret = List(Countries)

\* Other cases of C24 that are reached: the call that raises, the call
\* served from the fallback file, and the call at the very end of the TTL.
C24_WitnessRaised == got.pc = "raised" /\ fallback.exists
C24_WitnessFallback == got.pc = "returned" /\ got.loaded = "list"
C24_WitnessFreshAtTTL ==
    got.pc = "returned" /\ got.data.kind = "list" /\ CacheAge = CACHE_TTL_SECONDS

\* ------------------------------------------------------ competition mode

\* How many countries a competition session may answer before the model
\* stops serving it new ones.
MaxPlays == 6

\* A mutant of is_complete_country: the capital is not required.
CompleteWithoutCapital(fields) ==
    /\ fields.population.kind = "int"
    /\ fields.population.value > 0
    /\ fields.languages # << >>
    /\ fields.currencies # << >>

is_complete_country(fields) ==
    /\ fields.capital # << >>
    /\ fields.population.kind = "int"
    /\ fields.population.value > 0
    /\ fields.languages # << >>
    /\ fields.currencies # << >>

\* pick_unseen_complete_country(countries, seen_names): the candidates
\* random.choice draws from (none: random.choice raises IndexError).
pick_unseen_complete_country(countries, seen_names) ==
    LET unseen == {get_country_fields(countries[i]) :
                      i \in {j \in 1..Len(countries) :
                                /\ countries[j].name # << >>
                                /\ countries[j].name \notin seen_names
                                /\ is_complete_country(get_country_fields(countries[j]))}}
        complete == {get_country_fields(countries[i]) :
                        i \in {j \in 1..Len(countries) :
                                  is_complete_country(get_country_fields(countries[j]))}}
    IN  IF unseen # {} THEN unseen ELSE complete

Form(capital, population, language, currency) ==
    [capital |-> capital, population |-> population,
     language |-> language, currency |-> currency]

\* The forms posted: an empty one, the right answers for each of the two
\* complete countries, and one whose population field makes the parser
\* raise.
Forms ==
    { Form(<< >>, << >>, << >>, << >>),
      Form(<<" ", "s", "t", "o", "c", "k", "h", "o", "l", "m">>, <<"8", "0", "0">>, <<"s", "w", "e", "d", "i", "s", "h">>, <<"K", "R">>),
      Form(<<"F", "u", "n", "a", "f", "u", "t", "i">>, <<"1", "0">>, <<"E", "n", "g", "l", "i", "s", "h">>, <<"a", "u", "d">>),
      Form(<<"S", "t", "o", "c", "k", "h", "o", "l", "m">>, <<"sup2">>, <<"S", "w", "e", "d", "i", "s", "h">>, <<"k", "r", "o", "n", "a">>) }

Bool2Int(b) == IF b THEN 1 ELSE 0

\* The scoring blocks of submit() and of competition_play (POST): the
\* points, the points possible, and whether the population parser's
\* ValueError leaves the handler.
ScoreRound(current, form) ==
    LET capital == current.capital
        population == IF current.population.kind = "int"
                      THEN current.population.value ELSE 0
        p == PopulationBlock(population, form.population)
        languages == current.languages
        currency_objects == current.currencies
        capital_ok == norm_text(Strip(form.capital)) = norm_text(capital)
        language_ok == language_guess_is_correct(Strip(form.language), languages)
        currency_ok == currency_guess_is_correct(Strip(form.currency), currency_objects)
    IN  [error |-> p.ok = "ValueError",
         score |-> Bool2Int(capital # << >> /\ capital_ok)
                   + Bool2Int(p.ok = "correct")
                   + Bool2Int(languages # << >> /\ language_ok)
                   + Bool2Int(currency_objects # << >> /\ currency_ok),
         total |-> Bool2Int(capital # << >>)
                   + Bool2Int(p.ok # "skipped")
                   + Bool2Int(languages # << >>)
                   + Bool2Int(currency_objects # << >>)]

\* session.setdefault("comp_round", 1): a key that is not set reads as 0
\* in the model.
CompRound == IF comp.comp_round = 0 THEN 1 ELSE comp.comp_round

\* The get_countries_cached call every quiz handler starts with.
CountriesCall(fetch, save_ok) ==
    get_countries_cached(_COUNTRY_CACHE, fallback, wall, fetch, save_ok)

\* What the world may answer to a handler's get_countries_cached call: the
\* fetch's outcome and whether the fallback file can be written. Neither
\* is asked for while the cache is fresh.
World ==
    IF /\ _COUNTRY_CACHE.data.kind # "None"
       /\ (wall - _COUNTRY_CACHE.fetched_at) <= CACHE_TTL_SECONDS
    THEN {<<Raised, FALSE>>}
    ELSE FetchOutcomes \X BOOLEAN

\* The record of a call made from a handler, as GetCountriesCached keeps it.
GotOf(r, fetch) ==
    [pc |-> IF r.ret.kind = "raise" THEN "raised" ELSE "returned",
     now |-> wall,
     data |-> _COUNTRY_CACHE.data,
     fetched_at |-> _COUNTRY_CACHE.fetched_at,
     fetched |-> r.fetched,
     fetch |-> IF r.fetched THEN fetch ELSE NoData,
     loaded |-> r.loaded,
     ret |-> r.ret]

\* competition_play (GET): the country of the round in progress is shown
\* again, or a new one is picked. The handler fails when the country list
\* cannot be had or holds no complete country.
CompetitionPlayGet ==
    /\ comp.comp_name # << >>
    /\ \E w \in World :
          LET r == CountriesCall(w[1], w[2])
          IN  /\ _COUNTRY_CACHE' = r.cache
              /\ fallback' = r.file
              /\ got' = GotOf(r, w[1])
              /\ IF r.ret.kind = "raise"
                 THEN comp' = [comp EXCEPT !.pc = "error", !.comp_round = CompRound]
                 ELSE IF comp.comp_in_round /\ comp.comp_current.kind = "dict"
                 THEN comp' = [comp EXCEPT !.pc = "question", !.comp_round = CompRound]
                 ELSE LET seen == {comp.comp_seen[i] : i \in 1..Len(comp.comp_seen)}
                          candidates == pick_unseen_complete_country(r.ret.value, seen)
                      IN  /\ Len(comp.comp_seen) < MaxPlays
                          /\ IF candidates = {}
                             THEN comp' = [comp EXCEPT !.pc = "error",
                                                       !.comp_round = CompRound]
                             ELSE \E current \in candidates :
                                     comp' = [comp EXCEPT !.pc = "question",
                                                          !.comp_round = CompRound,
                                                          !.comp_current = current,
                                                          !.comp_in_round = TRUE]
    /\ UNCHANGED <<wall, session>>
    /\ UNCHANGED <<lbVars, pop, txt, cur, lang>>

\* competition_play (POST): the posted form is scored against
\* comp_current, the score is added to comp_score, the country's name is
\* appended to comp_seen, the round ends and the round counter advances up
\* to 5. Nothing is written when the population parser raises.
CompetitionPlayPost ==
    /\ comp.comp_name # << >>
    /\ \E w \in World, form \in Forms :
          LET r == CountriesCall(w[1], w[2])
              current == comp.comp_current
              s == ScoreRound(current, form)
              name == current.name
              comp_round == CompRound
          IN  /\ _COUNTRY_CACHE' = r.cache
              /\ fallback' = r.file
              /\ got' = GotOf(r, w[1])
              /\ IF r.ret.kind = "raise" \/ s.error
                 THEN comp' = [comp EXCEPT !.pc = "error", !.comp_round = CompRound]
                 ELSE comp' = [comp EXCEPT
                                 !.pc = "results",
                                 !.comp_score = comp.comp_score + s.score,
                                 !.comp_seen = IF name # << >> THEN Append(@, name) ELSE @,
                                 !.comp_in_round = FALSE,
                                 !.comp_current = NoCurrent,
                                 !.comp_round = IF comp_round < 5 THEN comp_round + 1
                                                ELSE 5]
    /\ UNCHANGED <<wall, session>>
    /\ UNCHANGED <<lbVars, pop, txt, cur, lang>>

\* clear_competition_session(keep_name): the competition keys are popped,
\* comp_name is put back when keep_name is set.
clear_competition_session(c, keep_name) ==
    [c EXCEPT !.comp_name = IF keep_name THEN @ ELSE << >>,
              !.comp_round = 0, !.comp_score = 0, !.comp_seen = << >>,
              !.comp_in_round = FALSE, !.comp_current = NoCurrent]

\* competition_save (POST): the session's score is handed to record_score
\* under the session's name, the competition keys are cleared (the name is
\* kept) and the score is remembered for the summary page. (The model
\* follows a session through its first save and the rounds played after
\* it.)
CompetitionSave ==
    /\ comp.comp_name # << >>
    /\ last.op = "none"
    /\ LET comp_name == comp.comp_name
           comp_score == comp.comp_score
           r == record_score(table, backend, comp_name, comp_score, clock)
           g == Note(recorded, inserted, comp_name, comp_score, r.did)
       IN  /\ table' = r.table
           /\ recorded' = g.recorded
           /\ inserted' = g.inserted
           /\ last' = [op |-> "record_score", name |-> comp_name, score |-> comp_score,
                       limit |-> 0, now |-> clock, ret |-> r.ret,
                       top |-> << >>, pre |-> table]
           /\ comp' = [clear_competition_session(comp, TRUE) EXCEPT
                          !.pc = "saved", !.last_comp_score = comp_score]
    /\ UNCHANGED <<backend, clock, pc, loc>>
    /\ UNCHANGED <<pop, txt, cur, lang>>
    /\ UNCHANGED webVars

NextComp == CompetitionPlayGet \/ CompetitionPlayPost \/ CompetitionSave

\* The country list is in the cache, fetched at the time the session
\* starts.
WarmCache ==
    /\ _COUNTRY_CACHE = [data |-> List(Countries), fetched_at |-> 0]
    /\ fallback = [exists |-> TRUE, content |-> List(Countries), mtime |-> 0]
    /\ wall = 0
    /\ got = NoGet

\* A competition has just been started under the name "Al".
InitComp ==
    /\ InitSqlite
    /\ InitQuestions
    /\ comp = [NoCompetition EXCEPT !.pc = "playing", !.name_raw = <<"A", "l">>, !.ok = TRUE,
                                    !.comp_name = <<"A", "l">>, !.comp_round = 1]
    /\ WarmCache
    /\ session = NoSession

\* One competition session: questions served, answers posted, scores saved.
SpecComp == InitComp /\ [][NextComp]_vars

C21_RoundWithinFive == comp.comp_round \in 0..5
C21_FourPointsPerPost ==
    [][comp'.comp_score > comp.comp_score => comp'.comp_score <= comp.comp_score + 4]_vars

\* States reached in competition mode: a sixth country is being asked in
\* "round 5", and a post was refused by the population parser.
C21_SixthCountryServed ==
    /\ comp.pc = "question" /\ Len(comp.comp_seen) = 5 /\ comp.comp_round = 5
    /\ comp.comp_score = 20
C21_ParserRaised == comp.pc = "error"

\* ------------------------------------------------------------- free mode

\* How many rounds a free-mode session may score before the model stops
\* scoring.
MaxRounds == 4

\* The elements of a list.
set(l) == {l[i] : i \in 1..Len(l)}

\* free(): the country of the round in progress is shown again, or a new
\* one is picked among those whose name is not in `seen` (among all, with
\* `seen` emptied, when there is none). The handler fails when the country
\* list cannot be had or is empty.
Free ==
    /\ \E w \in World :
          LET r == CountriesCall(w[1], w[2])
              s == [session EXCEPT !.keys = TRUE]
          IN  /\ _COUNTRY_CACHE' = r.cache
              /\ fallback' = r.file
              /\ got' = GotOf(r, w[1])
              /\ IF r.ret.kind = "raise"
                 THEN session' = [session EXCEPT !.response = "error"]
                 ELSE IF s.in_round /\ s.current.kind = "dict"
                 THEN session' = [s EXCEPT !.response = "question"]
                 ELSE LET countries == r.ret.value
                          seen == set(s.seen)
                          unseen == {i \in 1..Len(countries) : countries[i].name \notin seen}
                      IN  IF countries = << >>
                          THEN session' = [s EXCEPT !.seen = << >>, !.response = "error"]
                          ELSE \E i \in IF unseen = {} THEN 1..Len(countries) ELSE unseen :
                                  session' = [s EXCEPT
                                                !.seen = IF unseen = {} THEN << >> ELSE @,
                                                !.current = get_country_fields(countries[i]),
                                                !.in_round = TRUE,
                                                !.response = "question"]
    /\ UNCHANGED wall
    /\ UNCHANGED <<lbVars, quizVars>>

\* submit(): the posted form is scored against session["current"], the
\* cumulative statistics grow by the round's score and total, the
\* country's name joins `seen` and the round ends. Nothing is written when
\* the population parser raises, or when the session has no statistics
\* yet (KeyError).
Submit ==
    /\ session.rounds < MaxRounds
    /\ \E form \in Forms :
          LET current == session.current
              s == ScoreRound(current, form)
              name == current.name
          IN  IF s.error \/ ~session.keys
              THEN session' = [session EXCEPT !.response = "error"]
              ELSE session' = [session EXCEPT
                                 !.total_score = @ + s.score,
                                 !.total_possible = @ + s.total,
                                 !.rounds = @ + 1,
                                 !.seen = IF name # << >> /\ name \notin set(@)
                                          THEN Append(@, name) ELSE @,
                                 !.in_round = FALSE,
                                 !.response = "results"]
    /\ UNCHANGED <<_COUNTRY_CACHE, fallback, wall, got>>
    /\ UNCHANGED <<lbVars, quizVars>>

\* reset(): the session is cleared.
Reset ==
    /\ session' = NoSession
    /\ comp' = clear_competition_session(comp, FALSE)
    /\ UNCHANGED <<_COUNTRY_CACHE, fallback, wall, got>>
    /\ UNCHANGED <<lbVars, pop, txt, cur, lang>>

NextFree == Free \/ Submit \/ Reset

\* A visitor without a session; the country list is in the cache.
InitFree ==
    /\ InitSqlite
    /\ InitQuestions
    /\ comp = NoCompetition
    /\ WarmCache
    /\ session = NoSession

\* One free-mode session: questions served, answers posted.
SpecFree == InitFree /\ [][NextFree]_vars

\* C22: a served question is scored at most once. While no round is in
\* progress (the served question has been scored, or none was served) no
\* request adds to the cumulative statistics: total_score, total_possible
\* and rounds in free mode, comp_score in competition mode.
C22_ScoredAtMostOnce ==
    [][/\ ~session.in_round =>
             /\ session'.total_score <= session.total_score
             /\ session'.total_possible <= session.total_possible
             /\ session'.rounds <= session.rounds
       /\ ~comp.comp_in_round => comp'.comp_score <= comp.comp_score]_vars

\* The competition half of C22 alone.
C22_CompetitionScoredOnce ==
    [][~comp.comp_in_round => comp'.comp_score <= comp.comp_score]_vars

\* A second post of an answered question has been counted: two rounds
\* scored, one country seen.
C22_SameQuestionScoredTwice ==
    /\ session.rounds = 2 /\ Len(session.seen) = 1
    /\ session.total_score = 8

\* The four answers are all there to be asked for.
AllFourPresent(fields) ==
    /\ fields.capital # << >>
    /\ fields.population.kind = "int" /\ fields.population.value > 0
    /\ Len(fields.languages) > 0
    /\ Len(fields.currencies) > 0

\* The names of the countries of the cached list, and of those
\* competition mode may ask about.
NamesListed == {c.name : c \in set(_COUNTRY_CACHE.data.value)}
NamesEligible ==
    {c.name : c \in {d \in set(_COUNTRY_CACHE.data.value) :
                        d.name # << >> /\ AllFourPresent(get_country_fields(d))}}

\* A request picks a new question: a GET that is answered with a question
\* while no round was in progress.
FreePicks ==
    /\ ~(session.in_round /\ session.current.kind = "dict")
    /\ session'.in_round /\ session'.response = "question"
CompetitionPicks ==
    /\ ~(comp.comp_in_round /\ comp.comp_current.kind = "dict")
    /\ comp'.comp_in_round /\ comp'.pc = "question"

\* C23: a newly picked country's name is not among the names already
\* submitted in the session (seen in free mode, comp_seen in competition
\* mode) unless every eligible country has been seen; in competition mode
\* the picked country has its capital, a positive population, languages
\* and currencies.
C23_PicksUnseenAndComplete ==
    [][/\ FreePicks =>
             \/ session'.current.name \notin set(session.seen)
             \/ NamesListed \subseteq set(session.seen)
       /\ CompetitionPicks =>
             /\ AllFourPresent(comp'.comp_current)
             /\ \/ comp'.comp_current.name \notin set(comp.comp_seen)
                \/ NamesEligible \subseteq set(comp.comp_seen)]_vars

\* In competition mode one country has been answered and the other
\* complete country is being asked.
C23_Witness ==
    /\ comp.pc = "question" /\ comp.comp_in_round
    /\ Len(comp.comp_seen) = 1
    /\ comp.comp_current.name \notin set(comp.comp_seen)

\* Other cases of C23 that are reached: a repeat in competition mode once
\* both complete countries were seen, and in free mode a pick after one
\* country was seen and a pick after all were.
C23_WitnessRepeat ==
    /\ comp.pc = "question" /\ comp.comp_in_round
    /\ comp.comp_current.name \in set(comp.comp_seen)
C23_WitnessFree ==
    /\ session.response = "question" /\ session.in_round
    /\ Len(session.seen) = 1 /\ session.current.name \notin set(session.seen)
C23_WitnessFreeAllSeen ==
    /\ session.response = "question" /\ session.in_round
    /\ session.rounds = 3 /\ session.seen = << >>

====
